---------------------------- MODULE Spec2Model ----------------------------
(***************************************************************************)
(* The trading loops of TRADING-BOTS/*.py as one state machine.            *)
(*                                                                         *)
(* Every script is a separate process with its own module-level globals.   *)
(* The variable `bot` records which script is running (it never changes),  *)
(* and the globals the scripts share by name are held in one variable      *)
(* each:                                                                   *)
(*   history      price_history / candles / ratio_history / spread_history *)
(*                (a candle has open = high = low = close = the fetched    *)
(*                price, so it is held as that price)                      *)
(*   position     position / current_position / in_position (1 = TRUE)     *)
(*   entry_price  entry_price                                              *)
(*   profit       cum_profit / profit / cash (cash relative to its start)  *)
(*   entry_spread entry_spread (spread_bot) / entry_ratio                  *)
(*                (relative_arbitrage)                                     *)
(* One action is one pass through the script's `while True:` body, from    *)
(* the market-data fetch to the sleep.  The outcome of the fetch and of    *)
(* every order the pass submits are the action's inputs.                   *)
(*                                                                         *)
(* Two variables observe the pass without being read by it:                *)
(*   fetch  the outcome of the pass's market-data request                  *)
(*   sent   the orders the pass submitted, in order, each with its result  *)
(* Prices are small positive integers; every comparison of means and       *)
(* standard deviations is done on integers by clearing denominators.       *)
(***************************************************************************)
EXTENDS Integers, Sequences, FiniteSets, TLC

VARIABLES bot, history, position, entry_price, profit, fetch, sent,
          \* spread_bot.py and relative_arbitrage.py
          historical_data, beta, entry_BTC, entry_ETH, entry_spread,
          \* Reinforcement_bot.py: Q_table, main's locals state, action and
          \* previous_portfolio_value, and the number of calls of choose_action
          \* so far; pc is the place of the script's main in its loop body:
          \* "fetch" at the fetch that starts a pass, in Reinforcement_bot
          \* "next" at its second fetch (line 274, after the sleep), and in
          \* every script "crashed" once an exception has left main
          Q_table, state, action, previous_portfolio_value, pc, steps,
          \* last_reward: the reward of the last Q-update of main, None
          \* before the first; acted (a history variable): the number of calls of
          \* execute_action since the tick at which state was observed
          last_reward, acted,
          \* trend_following_bot.py: last_trade_time and the wall clock
          last_trade_time, now,
          \* GNN_1.py
          baseline_close, previous_close,
          \* GNN_1.py: the decision of the last pass that took one, None
          \* before the first
          last_decision,
          \* history variable: None, or Some of the sequence of all values
          \* appended so far to the bot's rolling buffer
          pushed,
          \* history variable: None, or Some of the net quantity filled at
          \* the exchange per symbol, successful buys minus successful
          \* sells, in units of TRADE_AMOUNT
          net_filled,
          \* history variable: None, or Some of the number of fetches that
          \* succeeded so far, counted up to ObservedCap
          observed,
          \* the number of time.sleep(EVALUATION_INTERVAL) calls the last pass
          \* made after its fetch, that is before the fetch that follows it
          sleeps

pairVars == <<historical_data, beta, entry_BTC, entry_ETH, entry_spread>>
rlVars == <<Q_table, state, action, previous_portfolio_value, pc, steps,
            last_reward, acted>>
tfVars == <<last_trade_time, now>>
gnnVars == <<baseline_close, previous_close, last_decision>>

vars == <<bot, history, position, entry_price, profit, fetch, sent,
          pairVars, rlVars, tfVars, gnnVars, pushed, net_filled, observed, sleeps>>

---------------------------------------------------------------------------
(* Bounds of the model *)

\* prices offered by the market-data endpoint are 1..MaxPrice
MaxPrice == 2
\* a pass is taken only while the cumulative profit stays in -MaxProfit..MaxProfit
MaxProfit == 2

\* window sizes and thresholds, scaled down from the scripts' values
\* DualMovingAverage.py: FAST_WINDOW = 10, SLOW_WINDOW = 50
DMA_FAST_WINDOW == 1
DMA_SLOW_WINDOW == 3
\* moving_average.py: WINDOW = 50
MAVG_WINDOW == 2
\* momentum_bot.py: MOMENTUM_PERIOD = 10, THRESHOLD = 50, history capped at 100
MOM_MOMENTUM_PERIOD == 2
MOM_THRESHOLD == 1
MOM_HISTORY_CAP == 3
\* bollinger_bands.py: WINDOW = 20 (a price of the window can lie more than
\* two sample standard deviations from the window's mean only if WINDOW >= 6)
BB_WINDOW == 6
\* mean_reversion.py: WINDOW = 20
MR_WINDOW == 6
\* rsi_strategy.py: RSI_PERIOD = 14
RSI_PERIOD == 2
\* breakout_bot.py: LOOKBACK = 20
BRK_LOOKBACK == 2
\* spread_bot.py: INITIAL_WINDOW = 100, ROLLING_WINDOW = 60 (a value of the
\* window can lie more than one deviation from the window's mean only if
\* ROLLING_WINDOW >= 3)
SPR_INITIAL_WINDOW == 2
SPR_ROLLING_WINDOW == 3
\* relative_arbitrage.py: ROLLING_WINDOW = 60
ARB_ROLLING_WINDOW == 3
\* Reinforcement_bot.py: MA_WINDOW = 20
RL_MA_WINDOW == 2
\* trend_following_bot.py: FAST_WINDOW = 10, SLOW_WINDOW = 50
TF_FAST_WINDOW == 2
TF_SLOW_WINDOW == 4
\* Reinforcement_bot chooses an action at most RL_MaxSteps times
RL_MaxSteps == 2
\* trend_following_bot runs while its clock is at most TF_MaxTime seconds,
\* and an order takes 0..TF_MaxLatency seconds
TF_MaxTime == 300
TF_MaxLatency == 1
\* a run that records its appended values appends at most MaxPushes values
MaxPushes == 4
\* Python's float is held with FP_PRECISION significant bits (binary64 has
\* 53), and estimate_beta is applied to FP_POINTS calibration points
FP_PRECISION == 3
FP_POINTS == 3
\* a run that records its fills keeps the net filled quantity of each symbol
\* within -MaxFilled .. MaxFilled
MaxFilled == 1

(* Program constants *)
\* spread_bot.py and relative_arbitrage.py: THRESHOLD = 1.0
SPR_THRESHOLD == 1
ARB_THRESHOLD == 1
\* Reinforcement_bot.py: TREND_THRESHOLD = 0.01, in hundredths;
\* alpha = 0.1 = 1 / RL_alpha_inv; gamma = 0.99 = RL_gamma_pct / 100
RL_TREND_THRESHOLD_PCT == 1
RL_alpha_inv == 10
RL_gamma_pct == 99
\* TRADE_AMOUNT in hundredths of a coin: 0.01 in DualMovingAverage.py and
\* momentum_bot.py, 0.1 in Reinforcement_bot.py
DMA_TRADE_AMOUNT_PCT == 1
MOM_TRADE_AMOUNT_PCT == 1
RL_TRADE_AMOUNT_PCT == 10
\* trend_following_bot.py: EVALUATION_INTERVAL = 60, COOLDOWN = 60 (seconds)
TF_EVALUATION_INTERVAL == 60
TF_COOLDOWN == 60

---------------------------------------------------------------------------
(* Values *)

\* Python's None, and a value that is not None; Val reads the value
None == << >>
Some(v) == <<v>>
Val(x) == x[1]

Prices == 1..MaxPrice
\* the prices offered to the scripts that divide by a price
ZeroPrices == 0..MaxPrice
\* the outcomes of a market-data request: a transport error or timeout, a
\* response without the symbol, or a response with a price
FetchFailures == {"error", "missing"}
FetchOutcomes == FetchFailures \cup {"ok"}

Bots == {"DualMovingAverage", "moving_average", "momentum_bot", "bollinger_bands",
         "mean_reversion", "rsi_strategy", "breakout_bot", "spread_bot",
         "relative_arbitrage", "Reinforcement_bot", "trend_following_bot",
         "GNN_1"}

Order(side, leg, ok) == [side |-> side, leg |-> leg, ok |-> ok]
\* an order of a script that trades two symbols
PairOrder(symbol, side, leg, ok) ==
    [symbol |-> symbol, side |-> side, leg |-> leg, ok |-> ok]

RECURSIVE Sum(_)
Sum(s) == IF s = <<>> THEN 0 ELSE Head(s) + Sum(Tail(s))

RECURSIVE SumSq(_)
SumSq(s) == IF s = <<>> THEN 0 ELSE Head(s) * Head(s) + SumSq(Tail(s))

RECURSIVE Max(_)
Max(s) == IF Len(s) = 1 THEN s[1]
          ELSE LET m == Max(Tail(s)) IN IF s[1] > m THEN s[1] ELSE m

RECURSIVE Min(_)
Min(s) == IF Len(s) = 1 THEN s[1]
          ELSE LET m == Min(Tail(s)) IN IF s[1] < m THEN s[1] ELSE m

\* s[-n:]
LastN(s, n) == IF Len(s) <= n THEN s ELSE SubSeq(s, Len(s) - n + 1, Len(s))

\* price_history.append(v); if len(price_history) > N: price_history = price_history[-N:]
\* a buffer that, once full, refuses the new value
PushKeepOldest(s, v, n) == IF Len(s) < n THEN Append(s, v) ELSE s

Push(s, v, n) ==
    LET a == Append(s, v) IN IF Len(a) > n THEN LastN(a, n) ELSE a

\* a pass whose fetch failed reads none of its other inputs: they are fixed
Unread(f, fixed) == f \in FetchFailures => fixed

\* the append of v to the rolling buffer, as seen by the history variable
Recorded(v) ==
    IF pushed = None THEN pushed' = pushed
    ELSE /\ Len(Val(pushed)) < MaxPushes
         /\ pushed' = Some(Append(Val(pushed), v))

InRange(p) == p >= -MaxProfit /\ p <= MaxProfit

Symbols == {"BTC", "ETH"}

\* the symbol of an order: SYMBOL = "BTC" in the scripts that trade one symbol
OrderSymbol(o) == IF "symbol" \in DOMAIN o THEN o.symbol ELSE "BTC"

\* the quantity of sym the exchange filled for the orders of one pass
RECURSIVE NetFilled(_, _)
NetFilled(orders, sym) ==
    IF orders = <<>> THEN 0
    ELSE LET o == Head(orders) IN
         (IF o.ok /\ OrderSymbol(o) = sym
          THEN (IF o.side = "buy" THEN 1 ELSE -1) ELSE 0)
         + NetFilled(Tail(orders), sym)

NoFills == [sym \in Symbols |-> 0]

\* the orders of the pass, as seen by the history variable
Fills ==
    IF net_filled = None THEN net_filled' = net_filled
    ELSE LET n == [sym \in Symbols |-> Val(net_filled)[sym] + NetFilled(sent', sym)] IN
         /\ \A sym \in Symbols : n[sym] >= -MaxFilled /\ n[sym] <= MaxFilled
         /\ net_filled' = Some(n)

\* the count of successful fetches stops at the first observation after the
\* one at which spread_bot has both of its windows full
ObservedCap == SPR_INITIAL_WINDOW + SPR_ROLLING_WINDOW

\* the fetch of the pass, as seen by the history variable
Observes ==
    IF observed = None THEN observed' = observed
    ELSE observed' = Some(IF fetch' = "ok" /\ Val(observed) < ObservedCap
                          THEN Val(observed) + 1 ELSE Val(observed))

\* the trading state a pass reads and writes
Trading(pos, entry, prof, orders) ==
    [position |-> pos, entry_price |-> entry, profit |-> prof, sent |-> orders]

---------------------------------------------------------------------------
(* DualMovingAverage.py *)

\* the trading logic with entries from Flat that do not look at the result
\* of the order
DMA_TradeEnterUnchecked(pos, entry, prof, price, bullish, ok1, ok2) ==
    IF bullish
    THEN IF pos = 0
         THEN Trading(1, Some(price), prof, <<Order("buy", "enter", ok1)>>)
         ELSE IF pos = -1
         THEN IF ok1
              THEN IF ok2
                   THEN Trading(1, Some(price), prof + (Val(entry) - price),
                                <<Order("buy", "exit", TRUE), Order("buy", "enter", TRUE)>>)
                   ELSE Trading(pos, entry, prof + (Val(entry) - price),
                                <<Order("buy", "exit", TRUE), Order("buy", "enter", FALSE)>>)
              ELSE Trading(pos, entry, prof, <<Order("buy", "exit", FALSE)>>)
         ELSE Trading(pos, entry, prof, <<>>)
    ELSE IF pos = 0
         THEN Trading(-1, Some(price), prof, <<Order("sell", "enter", ok1)>>)
         ELSE IF pos = 1
         THEN IF ok1
              THEN IF ok2
                   THEN Trading(-1, Some(price), prof + (price - Val(entry)),
                                <<Order("sell", "exit", TRUE), Order("sell", "enter", TRUE)>>)
                   ELSE Trading(pos, entry, prof + (price - Val(entry)),
                                <<Order("sell", "exit", TRUE), Order("sell", "enter", FALSE)>>)
              ELSE Trading(pos, entry, prof, <<Order("sell", "exit", FALSE)>>)
         ELSE Trading(pos, entry, prof, <<>>)

\* the trading logic of main, lines 137-175; bullish is fast_ma > slow_ma
DMA_Trade(pos, entry, prof, price, bullish, ok1, ok2) ==
    IF bullish
    THEN IF pos = 0
         THEN IF ok1
              THEN Trading(1, Some(price), prof, <<Order("buy", "enter", TRUE)>>)
              ELSE Trading(pos, entry, prof, <<Order("buy", "enter", FALSE)>>)
         ELSE IF pos = -1
         THEN IF ok1
              THEN IF ok2
                   THEN Trading(1, Some(price), prof + (Val(entry) - price),
                                <<Order("buy", "exit", TRUE), Order("buy", "enter", TRUE)>>)
                   ELSE Trading(pos, entry, prof + (Val(entry) - price),
                                <<Order("buy", "exit", TRUE), Order("buy", "enter", FALSE)>>)
              ELSE Trading(pos, entry, prof, <<Order("buy", "exit", FALSE)>>)
         ELSE Trading(pos, entry, prof, <<>>)
    ELSE IF pos = 0
         THEN IF ok1
              THEN Trading(-1, Some(price), prof, <<Order("sell", "enter", TRUE)>>)
              ELSE Trading(pos, entry, prof, <<Order("sell", "enter", FALSE)>>)
         ELSE IF pos = 1
         THEN IF ok1
              THEN IF ok2
                   THEN Trading(-1, Some(price), prof + (price - Val(entry)),
                                <<Order("sell", "exit", TRUE), Order("sell", "enter", TRUE)>>)
                   ELSE Trading(pos, entry, prof + (price - Val(entry)),
                                <<Order("sell", "exit", TRUE), Order("sell", "enter", FALSE)>>)
              ELSE Trading(pos, entry, prof, <<Order("sell", "exit", FALSE)>>)
         ELSE Trading(pos, entry, prof, <<>>)

\* fast_ma > slow_ma, with fast_ma = mean(h[-FAST:]) and slow_ma = mean(h)
DMA_Bullish(h) ==
    Sum(LastN(h, DMA_FAST_WINDOW)) * Len(h) > Sum(h) * Len(LastN(h, DMA_FAST_WINDOW))

\* one pass of the while loop of main
DMA_main(f, price, ok1, ok2) ==
    /\ bot = "DualMovingAverage"
    /\ pc = "fetch"
    /\ Unread(f, price = 1 /\ ok1 /\ ok2)
    /\ fetch' = f
    /\ sleeps' = 1
    /\ bot' = bot
    /\ UNCHANGED <<pairVars, rlVars, tfVars, gnnVars>>
    /\ IF f \in FetchFailures
       THEN /\ sent' = <<>>
            /\ UNCHANGED <<history, position, entry_price, profit, pushed>>
       ELSE LET h == Push(history, price, DMA_SLOW_WINDOW) IN
            /\ history' = h
            /\ Recorded(price)
            /\ IF Len(h) < DMA_SLOW_WINDOW
               THEN /\ sent' = <<>>
                    /\ UNCHANGED <<position, entry_price, profit>>
               ELSE LET t == DMA_Trade(position, entry_price, profit, price,
                                       DMA_Bullish(h), ok1, ok2) IN
                    /\ InRange(t.profit)
                    /\ position' = t.position
                    /\ entry_price' = t.entry_price
                    /\ profit' = t.profit
                    /\ sent' = t.sent
    /\ Fills
    /\ Observes

\* a pass that appends to the buffer before it looks at the fetch
PassPushFirst(f, price, h, t) ==
    /\ pc = "fetch"
    /\ fetch' = f
    /\ sleeps' = 1
    /\ bot' = bot
    /\ UNCHANGED <<pairVars, rlVars, tfVars, gnnVars, pushed>>
    /\ history' = h
    /\ IF f \in FetchFailures
       THEN /\ sent' = <<>>
            /\ UNCHANGED <<position, entry_price, profit>>
       ELSE /\ InRange(t.profit)
            /\ position' = t.position
            /\ entry_price' = t.entry_price
            /\ profit' = t.profit
            /\ sent' = t.sent
    /\ Fills
    /\ Observes

\* the body shared by the scripts whose main appends a candle and calls an
\* evaluate function: a failed fetch skips the pass, a price is pushed and
\* the strategy evaluated on the pushed history
Pass(f, price, h, t) ==
    /\ pc = "fetch"
    /\ fetch' = f
    /\ sleeps' = 1
    /\ bot' = bot
    /\ UNCHANGED <<pairVars, rlVars, tfVars, gnnVars>>
    /\ IF f \in FetchFailures
       THEN /\ sent' = <<>>
            /\ UNCHANGED <<history, position, entry_price, profit, pushed>>
       ELSE /\ history' = h
            /\ Recorded(price)
            /\ InRange(t.profit)
            /\ position' = t.position
            /\ entry_price' = t.entry_price
            /\ profit' = t.profit
            /\ sent' = t.sent
    /\ Fills
    /\ Observes

\* a pass without an order that drops the position
HoldFlat(pos, entry, prof) == Trading(0, None, prof, <<>>)

Hold(pos, entry, prof) == Trading(pos, entry, prof, <<>>)

---------------------------------------------------------------------------
(* moving_average.py *)

\* evaluate_moving_average, lines 133-169; above is current_price > moving_average
MAVG_Trade(pos, entry, prof, price, above, ok1, ok2) ==
    LET desired_position == IF above THEN 1 ELSE -1
        side == IF desired_position = 1 THEN "buy" ELSE "sell"
    IN  IF pos = 0
        THEN Trading(desired_position, Some(price), prof, <<Order(side, "enter", ok1)>>)
        ELSE IF pos # desired_position
        THEN IF pos = 1
             THEN Trading(desired_position, Some(price), prof + (price - Val(entry)),
                          <<Order("sell", "exit", ok1), Order(side, "enter", ok2)>>)
             ELSE Trading(desired_position, Some(price), prof + (Val(entry) - price),
                          <<Order("buy", "exit", ok1), Order(side, "enter", ok2)>>)
        ELSE Hold(pos, entry, prof)

\* current_price > moving_average, over the last WINDOW closes
MAVG_Above(h) == h[Len(h)] * MAVG_WINDOW > Sum(LastN(h, MAVG_WINDOW))

\* an evaluation that starts one candle before the window is full
MAVG_evaluateEarly(h, pos, entry, prof, ok1, ok2) ==
    IF Len(h) < MAVG_WINDOW - 1 THEN Hold(pos, entry, prof)
    ELSE MAVG_Trade(pos, entry, prof, h[Len(h)], MAVG_Above(h), ok1, ok2)

\* evaluate_moving_average, lines 119-128
MAVG_evaluate(h, pos, entry, prof, ok1, ok2) ==
    IF Len(h) < MAVG_WINDOW THEN Hold(pos, entry, prof)
    ELSE MAVG_Trade(pos, entry, prof, h[Len(h)], MAVG_Above(h), ok1, ok2)

MAVG_main(f, price, ok1, ok2) ==
    /\ bot = "moving_average"
    /\ Unread(f, price = 1 /\ ok1 /\ ok2)
    /\ LET h == Push(history, price, MAVG_WINDOW) IN
       Pass(f, price, h, MAVG_evaluate(h, position, entry_price, profit, ok1, ok2))

---------------------------------------------------------------------------
(* momentum_bot.py *)

\* the momentum logic with entries taken already at the threshold
MOM_TradeAtThreshold(pos, entry, prof, price, momentum, ok) ==
    IF pos = 0
    THEN IF momentum >= MOM_THRESHOLD
         THEN IF ok THEN Trading(1, Some(price), prof, <<Order("buy", "enter", TRUE)>>)
                    ELSE Trading(pos, entry, prof, <<Order("buy", "enter", FALSE)>>)
         ELSE IF momentum <= -MOM_THRESHOLD
         THEN IF ok THEN Trading(-1, Some(price), prof, <<Order("sell", "enter", TRUE)>>)
                    ELSE Trading(pos, entry, prof, <<Order("sell", "enter", FALSE)>>)
         ELSE Hold(pos, entry, prof)
    ELSE IF pos = 1 /\ momentum < 0
         THEN IF ok THEN Trading(0, None, prof + (price - Val(entry)),
                                 <<Order("sell", "exit", TRUE)>>)
                    ELSE Trading(pos, entry, prof, <<Order("sell", "exit", FALSE)>>)
         ELSE IF pos = -1 /\ momentum > 0
         THEN IF ok THEN Trading(0, None, prof + (Val(entry) - price),
                                 <<Order("buy", "exit", TRUE)>>)
                    ELSE Trading(pos, entry, prof, <<Order("buy", "exit", FALSE)>>)
         ELSE Hold(pos, entry, prof)

\* evaluate_trading_signal, lines 139-164
MOM_Trade(pos, entry, prof, price, momentum, ok) ==
    IF pos = 0
    THEN IF momentum > MOM_THRESHOLD
         THEN IF ok THEN Trading(1, Some(price), prof, <<Order("buy", "enter", TRUE)>>)
                    ELSE Trading(pos, entry, prof, <<Order("buy", "enter", FALSE)>>)
         ELSE IF momentum < -MOM_THRESHOLD
         THEN IF ok THEN Trading(-1, Some(price), prof, <<Order("sell", "enter", TRUE)>>)
                    ELSE Trading(pos, entry, prof, <<Order("sell", "enter", FALSE)>>)
         ELSE Hold(pos, entry, prof)
    ELSE IF pos = 1 /\ momentum < 0
         THEN IF ok THEN Trading(0, None, prof + (price - Val(entry)),
                                 <<Order("sell", "exit", TRUE)>>)
                    ELSE Trading(pos, entry, prof, <<Order("sell", "exit", FALSE)>>)
         ELSE IF pos = -1 /\ momentum > 0
         THEN IF ok THEN Trading(0, None, prof + (Val(entry) - price),
                                 <<Order("buy", "exit", TRUE)>>)
                    ELSE Trading(pos, entry, prof, <<Order("buy", "exit", FALSE)>>)
         ELSE Hold(pos, entry, prof)

\* current_price - past_price, past_price = price_history[-MOMENTUM_PERIOD]
MOM_Momentum(h) == h[Len(h)] - h[Len(h) - MOM_MOMENTUM_PERIOD + 1]

MOM_evaluate(h, pos, entry, prof, ok) ==
    IF Len(h) < MOM_MOMENTUM_PERIOD THEN Hold(pos, entry, prof)
    ELSE MOM_Trade(pos, entry, prof, h[Len(h)], MOM_Momentum(h), ok)

\* the prices offered to momentum_bot let the momentum exceed the threshold
MOM_Prices == 1..(MaxPrice + MOM_THRESHOLD)

MOM_main(f, price, ok) ==
    /\ bot = "momentum_bot"
    /\ Unread(f, price = 1 /\ ok)
    /\ LET h == Push(history, price, MOM_HISTORY_CAP) IN
       Pass(f, price, h, MOM_evaluate(h, position, entry_price, profit, ok))

---------------------------------------------------------------------------
(* Bands around a mean.  For the values c with n = len(c), mean = sum(c)/n *)
(* and std = statistics.stdev(c) (ddof = 1, the sample deviation) or        *)
(* statistics.pstdev(c) (ddof = 0, the population deviation):               *)
(*   x - mean = D / n           with D = n*x - sum(c)                       *)
(*   std^2 = V / (n*(n - ddof)) with V = n*sum(c^2) - sum(c)^2              *)
(* so x > mean + k*std iff D > 0 and D^2 * (n - ddof) > k^2 * n * V.        *)

\* x > mean(c) + k * std(c)
AboveUpperBand(c, x, k, ddof) ==
    LET n == Len(c)
        D == n * x - Sum(c)
        V == n * SumSq(c) - Sum(c) * Sum(c)
    IN  D > 0 /\ D * D * (n - ddof) > k * k * n * V

\* x < mean(c) - k * std(c)
BelowLowerBand(c, x, k, ddof) ==
    LET n == Len(c)
        D == n * x - Sum(c)
        V == n * SumSq(c) - Sum(c) * Sum(c)
    IN  D < 0 /\ D * D * (n - ddof) > k * k * n * V

\* price compared with the mean of c: -1 below, 0 equal, 1 above
CompareToMean(c, price) ==
    LET D == Len(c) * price - Sum(c) IN IF D < 0 THEN -1 ELSE IF D > 0 THEN 1 ELSE 0

---------------------------------------------------------------------------
(* bollinger_bands.py *)

\* the band-breakout logic with exits taken already at the mean
BB_TradeExitAtMean(pos, entry, prof, price, c, ok) ==
    IF pos = 0
    THEN IF AboveUpperBand(c, price, 2, 1)
         THEN Trading(1, Some(price), prof, <<Order("buy", "enter", ok)>>)
         ELSE IF BelowLowerBand(c, price, 2, 1)
         THEN Trading(-1, Some(price), prof, <<Order("sell", "enter", ok)>>)
         ELSE Hold(pos, entry, prof)
    ELSE IF pos = 1 /\ CompareToMean(c, price) <= 0
         THEN Trading(0, None, prof + (price - Val(entry)), <<Order("sell", "exit", ok)>>)
         ELSE IF pos = -1 /\ CompareToMean(c, price) >= 0
         THEN Trading(0, None, prof + (Val(entry) - price), <<Order("buy", "exit", ok)>>)
         ELSE Hold(pos, entry, prof)

\* evaluate_bollinger_bands, lines 147-174
BB_Trade(pos, entry, prof, price, c, ok) ==
    IF pos = 0
    THEN IF AboveUpperBand(c, price, 2, 1)
         THEN Trading(1, Some(price), prof, <<Order("buy", "enter", ok)>>)
         ELSE IF BelowLowerBand(c, price, 2, 1)
         THEN Trading(-1, Some(price), prof, <<Order("sell", "enter", ok)>>)
         ELSE Hold(pos, entry, prof)
    ELSE IF pos = 1 /\ CompareToMean(c, price) < 0
         THEN Trading(0, None, prof + (price - Val(entry)), <<Order("sell", "exit", ok)>>)
         ELSE IF pos = -1 /\ CompareToMean(c, price) > 0
         THEN Trading(0, None, prof + (Val(entry) - price), <<Order("buy", "exit", ok)>>)
         ELSE Hold(pos, entry, prof)

BB_evaluate(h, pos, entry, prof, ok) ==
    IF Len(h) < BB_WINDOW THEN Hold(pos, entry, prof)
    ELSE BB_Trade(pos, entry, prof, h[Len(h)], LastN(h, BB_WINDOW), ok)

BB_main(f, price, ok) ==
    /\ bot = "bollinger_bands"
    /\ Unread(f, price = 1 /\ ok)
    /\ LET h == Push(history, price, BB_WINDOW) IN
       Pass(f, price, h, BB_evaluate(h, position, entry_price, profit, ok))

---------------------------------------------------------------------------
(* mean_reversion.py *)

\* the band-reversion logic with exits taken only past the mean
MR_TradeExitPastMean(pos, entry, prof, price, c, ok) ==
    IF pos = 0
    THEN IF BelowLowerBand(c, price, 2, 1)
         THEN Trading(1, Some(price), prof, <<Order("buy", "enter", ok)>>)
         ELSE IF AboveUpperBand(c, price, 2, 1)
         THEN Trading(-1, Some(price), prof, <<Order("sell", "enter", ok)>>)
         ELSE Hold(pos, entry, prof)
    ELSE IF pos = 1 /\ CompareToMean(c, price) > 0
         THEN Trading(0, None, prof + (price - Val(entry)), <<Order("sell", "exit", ok)>>)
         ELSE IF pos = -1 /\ CompareToMean(c, price) < 0
         THEN Trading(0, None, prof + (Val(entry) - price), <<Order("buy", "exit", ok)>>)
         ELSE Hold(pos, entry, prof)

\* evaluate_mean_reversion, lines 148-173
MR_Trade(pos, entry, prof, price, c, ok) ==
    IF pos = 0
    THEN IF BelowLowerBand(c, price, 2, 1)
         THEN Trading(1, Some(price), prof, <<Order("buy", "enter", ok)>>)
         ELSE IF AboveUpperBand(c, price, 2, 1)
         THEN Trading(-1, Some(price), prof, <<Order("sell", "enter", ok)>>)
         ELSE Hold(pos, entry, prof)
    ELSE IF pos = 1 /\ CompareToMean(c, price) >= 0
         THEN Trading(0, None, prof + (price - Val(entry)), <<Order("sell", "exit", ok)>>)
         ELSE IF pos = -1 /\ CompareToMean(c, price) <= 0
         THEN Trading(0, None, prof + (Val(entry) - price), <<Order("buy", "exit", ok)>>)
         ELSE Hold(pos, entry, prof)

MR_evaluate(h, pos, entry, prof, ok) ==
    IF Len(h) < MR_WINDOW THEN Hold(pos, entry, prof)
    ELSE MR_Trade(pos, entry, prof, h[Len(h)], LastN(h, MR_WINDOW), ok)

MR_main(f, price, ok) ==
    /\ bot = "mean_reversion"
    /\ Unread(f, price = 1 /\ ok)
    /\ LET h == Push(history, price, MR_WINDOW) IN
       Pass(f, price, h, MR_evaluate(h, position, entry_price, profit, ok))

---------------------------------------------------------------------------
(* rsi_strategy.py *)

\* the sum of the positive differences of consecutive closes (gain) or of
\* the negated negative ones (loss): delta.clip(lower=0), -delta.clip(upper=0)
RECURSIVE RSI_Gain(_)
RSI_Gain(c) == IF Len(c) < 2 THEN 0
               ELSE (IF c[2] > c[1] THEN c[2] - c[1] ELSE 0) + RSI_Gain(Tail(c))

RECURSIVE RSI_Loss(_)
RSI_Loss(c) == IF Len(c) < 2 THEN 0
               ELSE (IF c[2] < c[1] THEN c[1] - c[2] ELSE 0) + RSI_Loss(Tail(c))

\* compute_RSI(series, period).iloc[-1] over the last period differences:
\* rs = avg_gain / avg_loss and rsi = 100 - 100 / (1 + rs), that is the
\* fraction num / den = 100 * gain / (gain + loss); pandas gives rs = inf and
\* rsi = 100 for loss = 0 < gain, and rs = rsi = NaN for gain = loss = 0
compute_RSI(c, period) ==
    LET w == LastN(c, period + 1)
        g == RSI_Gain(w)
        l == RSI_Loss(w)
    IN  IF g = 0 /\ l = 0 THEN [nan |-> TRUE, num |-> 0, den |-> 1]
        ELSE [nan |-> FALSE, num |-> 100 * g, den |-> g + l]

\* current_rsi < k and current_rsi > k; every comparison with NaN is False
RSI_Less(r, k) == ~r.nan /\ r.num < k * r.den
RSI_Greater(r, k) == ~r.nan /\ r.num > k * r.den

\* the RSI logic with exits taken already at an RSI of 50
RSI_TradeExitAtFifty(pos, entry, prof, price, current_rsi, ok) ==
    IF pos = 0
    THEN IF RSI_Less(current_rsi, 30)
         THEN Trading(1, Some(price), prof, <<Order("buy", "enter", ok)>>)
         ELSE IF RSI_Greater(current_rsi, 70)
         THEN Trading(-1, Some(price), prof, <<Order("sell", "enter", ok)>>)
         ELSE Hold(pos, entry, prof)
    ELSE IF pos = 1 /\ ~RSI_Less(current_rsi, 50)
         THEN Trading(0, None, prof + (price - Val(entry)), <<Order("sell", "exit", ok)>>)
         ELSE IF pos = -1 /\ ~RSI_Greater(current_rsi, 50)
         THEN Trading(0, None, prof + (Val(entry) - price), <<Order("buy", "exit", ok)>>)
         ELSE Hold(pos, entry, prof)

\* evaluate_RSI, lines 152-178
RSI_Trade(pos, entry, prof, price, current_rsi, ok) ==
    IF pos = 0
    THEN IF RSI_Less(current_rsi, 30)
         THEN Trading(1, Some(price), prof, <<Order("buy", "enter", ok)>>)
         ELSE IF RSI_Greater(current_rsi, 70)
         THEN Trading(-1, Some(price), prof, <<Order("sell", "enter", ok)>>)
         ELSE Hold(pos, entry, prof)
    ELSE IF pos = 1 /\ RSI_Greater(current_rsi, 50)
         THEN Trading(0, None, prof + (price - Val(entry)), <<Order("sell", "exit", ok)>>)
         ELSE IF pos = -1 /\ RSI_Less(current_rsi, 50)
         THEN Trading(0, None, prof + (Val(entry) - price), <<Order("buy", "exit", ok)>>)
         ELSE Hold(pos, entry, prof)

RSI_evaluate(h, pos, entry, prof, ok) ==
    IF Len(h) < RSI_PERIOD + 1 THEN Hold(pos, entry, prof)
    ELSE RSI_Trade(pos, entry, prof, h[Len(h)], compute_RSI(h, RSI_PERIOD), ok)

RSI_main(f, price, ok) ==
    /\ bot = "rsi_strategy"
    /\ Unread(f, price = 1 /\ ok)
    /\ LET h == Push(history, price, RSI_PERIOD + 1) IN
       Pass(f, price, h, RSI_evaluate(h, position, entry_price, profit, ok))

---------------------------------------------------------------------------
(* breakout_bot.py *)

\* evaluate_breakout, lines 146-171; prev is candles[-(LOOKBACK+1):-1] and
\* recent is candles[-LOOKBACK:]
BRK_Trade(pos, entry, prof, price, prev, recent, ok) ==
    IF pos = 0
    THEN IF price > Max(prev)
         THEN Trading(1, Some(price), prof, <<Order("buy", "enter", ok)>>)
         ELSE IF price < Min(prev)
         THEN Trading(-1, Some(price), prof, <<Order("sell", "enter", ok)>>)
         ELSE Hold(pos, entry, prof)
    ELSE IF pos = 1 /\ CompareToMean(recent, price) < 0
         THEN Trading(0, None, prof + (price - Val(entry)), <<Order("sell", "exit", ok)>>)
         ELSE IF pos = -1 /\ CompareToMean(recent, price) > 0
         THEN Trading(0, None, prof + (Val(entry) - price), <<Order("buy", "exit", ok)>>)
         ELSE Hold(pos, entry, prof)

\* an evaluation whose breakout levels include the current candle
BRK_evaluateIncludeCurrent(h, pos, entry, prof, ok) ==
    IF Len(h) < BRK_LOOKBACK + 1 THEN Hold(pos, entry, prof)
    ELSE BRK_Trade(pos, entry, prof, h[Len(h)],
                   LastN(h, BRK_LOOKBACK),
                   LastN(h, BRK_LOOKBACK), ok)

\* evaluate_breakout, lines 126-142
BRK_evaluate(h, pos, entry, prof, ok) ==
    IF Len(h) < BRK_LOOKBACK + 1 THEN Hold(pos, entry, prof)
    ELSE BRK_Trade(pos, entry, prof, h[Len(h)],
                   SubSeq(h, Len(h) - BRK_LOOKBACK, Len(h) - 1),
                   LastN(h, BRK_LOOKBACK), ok)

BRK_main(f, price, ok) ==
    /\ bot = "breakout_bot"
    /\ Unread(f, price = 1 /\ ok)
    /\ LET h == Push(history, price, BRK_LOOKBACK + 1) IN
       Pass(f, price, h, BRK_evaluate(h, position, entry_price, profit, ok))

---------------------------------------------------------------------------
(* The two-symbol scripts.  A response with either symbol missing is a      *)
(* failed fetch (fetch_market_data returns None).                           *)

\* a two-leg action that takes effect whenever one leg fills
AnyFilled(order1, order2) == order1 \/ order2

\* "if order1 and order2:"
BothFilled(order1, order2) == order1 /\ order2

\* the line send_trade_order prints for an order it reports as executed
\* whatever the answer of the trade API
AlwaysExecutedLine(o) == [symbol |-> o.symbol, side |-> o.side, line |-> "executed"]

\* the line send_trade_order of a pairs bot prints for an order: the
\* "executed" line of the try block or the "Error sending" line of the
\* except block, each naming the side and the symbol
send_trade_order_line(o) ==
    [symbol |-> o.symbol, side |-> o.side,
     line |-> IF o.ok THEN "executed" ELSE "error"]

\* the order lines printed in a pass, in the order of the calls
Printed(orders) == [i \in DOMAIN orders |-> send_trade_order_line(orders[i])]

PairTrading(pos, eb, ee, es, prof, orders) ==
    [position |-> pos, entry_BTC |-> eb, entry_ETH |-> ee, entry_spread |-> es,
     profit |-> prof, sent |-> orders]

PairHold(pos, eb, ee, es, prof) == PairTrading(pos, eb, ee, es, prof, <<>>)

\* a pass of a two-symbol script that got its prices: hd, b and h are the
\* new historical_data, beta and spread or ratio history, t the trading state
PairPass(hd, b, h, t, bound) ==
    /\ historical_data' = hd
    /\ beta' = b
    /\ history' = h
    /\ t.profit >= -bound /\ t.profit <= bound
    /\ position' = t.position
    /\ entry_BTC' = t.entry_BTC
    /\ entry_ETH' = t.entry_ETH
    /\ entry_spread' = t.entry_spread
    /\ profit' = t.profit
    /\ sent' = t.sent

\* spread_history.append(v); if len(spread_history) > N: spread_history.pop(0)
PushPop(s, v, n) ==
    LET a == Append(s, v) IN IF Len(a) > n THEN Tail(a) ELSE a

---------------------------------------------------------------------------
(* spread_bot.py *)
(* beta is the fraction num / den with den > 0.  The spreads, entry_spread  *)
(* and cum_profit are held multiplied by den, which is fixed once beta is   *)
(* estimated and before any of them is written.                             *)

RECURSIVE SumProd(_)
SumProd(d) == IF d = <<>> THEN 0 ELSE Head(d)[1] * Head(d)[2] + SumProd(Tail(d))

RECURSIVE Column(_, _)
Column(d, i) == IF d = <<>> THEN <<>> ELSE <<Head(d)[i]>> \o Column(Tail(d), i)

\* estimate_beta: cov / var_btc, or 0 when var_btc = 0; a data point is
\* <<BTC_close, ETH_close>>.  n * cov = n * sum(e*b) - sum(e) * sum(b) and
\* n * var_btc = n * sum(b^2) - sum(b)^2
estimate_beta(data_points) ==
    LET n == Len(data_points)
        btc_prices == Column(data_points, 1)
        eth_prices == Column(data_points, 2)
        cov == n * SumProd(data_points) - Sum(eth_prices) * Sum(btc_prices)
        var_btc == n * SumSq(btc_prices) - Sum(btc_prices) * Sum(btc_prices)
    IN  IF var_btc = 0 THEN [num |-> 0, den |-> 1]
        ELSE [num |-> cov, den |-> var_btc]

(* estimate_beta in floating point.  A float is an integer number of units  *)
(* (the spacing of the subnormals); up to 2^FP_PRECISION units every        *)
(* integer is a float, above that a float has FP_PRECISION significant      *)
(* bits.  Every operation gives the float nearest to the exact result,      *)
(* ties going to the even significand, as IEEE 754 does.                    *)

\* the spacing of the floats around x >= 0
RECURSIVE Ulp(_)
Ulp(x) == IF x < 2 ^ FP_PRECISION THEN 1 ELSE 2 * Ulp(x \div 2)

\* the float nearest to num / den, for num >= 0 and den > 0
RoundPositive(num, den) ==
    LET q == Ulp(num \div den)
        k == num \div (den * q)
        rem == num - k * den * q
    IN  IF 2 * rem < den * q THEN k * q
        ELSE IF 2 * rem > den * q THEN (k + 1) * q
        ELSE IF k % 2 = 0 THEN k * q ELSE (k + 1) * q

\* the float nearest to num / den, for den > 0
Round(num, den) ==
    IF num >= 0 THEN RoundPositive(num, den) ELSE -RoundPositive(-num, den)

\* sum(s): a left fold of float additions
RECURSIVE FloatSumFrom(_, _)
FloatSumFrom(acc, s) ==
    IF s = <<>> THEN acc ELSE FloatSumFrom(Round(acc + Head(s), 1), Tail(s))

FloatSum(s) == FloatSumFrom(0, s)

\* estimate_beta on floats: the quotient cov / var_btc of the two floats, or
\* 0 when var_btc == 0
estimate_beta_float(data_points) ==
    LET n == Len(data_points)
        btc_prices == Column(data_points, 1)
        eth_prices == Column(data_points, 2)
        mean_btc == Round(FloatSum(btc_prices), n)
        mean_eth == Round(FloatSum(eth_prices), n)
        cov == FloatSum([i \in 1..n |->
                   Round(Round(eth_prices[i] - mean_eth, 1)
                           * Round(btc_prices[i] - mean_btc, 1), 1)])
        var_btc == FloatSum([i \in 1..n |->
                       LET d == Round(btc_prices[i] - mean_btc, 1)
                       IN  Round(d * d, 1)])
    IN  IF var_btc = 0 THEN [num |-> 0, den |-> 1]
        ELSE [num |-> cov, den |-> var_btc]

\* a spread without the BTC leg: ETH_close, times den
SPR_SpreadUnhedged(b, BTC_close, ETH_close) == ETH_close * b.den

\* current_spread = ETH_close - beta * BTC_close, times den
SPR_Spread(b, BTC_close, ETH_close) == ETH_close * b.den - b.num * BTC_close

\* the trading logic of main, lines 191-240; sh is spread_history
SPR_Trade(pos, eb, ee, es, prof, b, BTC_close, ETH_close, sh, ok1, ok2) ==
    LET current_spread == SPR_Spread(b, BTC_close, ETH_close) IN
    IF pos = 0
    THEN IF AboveUpperBand(sh, current_spread, SPR_THRESHOLD, 0)
         THEN LET o == <<PairOrder("ETH", "sell", "enter", ok1),
                         PairOrder("BTC", "buy", "enter", ok2)>> IN
              IF BothFilled(ok1, ok2)
              THEN PairTrading(-1, Some(BTC_close), Some(ETH_close),
                               Some(current_spread), prof, o)
              ELSE PairTrading(pos, eb, ee, es, prof, o)
         ELSE IF BelowLowerBand(sh, current_spread, SPR_THRESHOLD, 0)
         THEN LET o == <<PairOrder("ETH", "buy", "enter", ok1),
                         PairOrder("BTC", "sell", "enter", ok2)>> IN
              IF BothFilled(ok1, ok2)
              THEN PairTrading(1, Some(BTC_close), Some(ETH_close),
                               Some(current_spread), prof, o)
              ELSE PairTrading(pos, eb, ee, es, prof, o)
         ELSE PairHold(pos, eb, ee, es, prof)
    ELSE IF pos = 1 /\ CompareToMean(sh, current_spread) >= 0
         THEN LET profit_trade == (ETH_close - Val(ee)) * b.den
                                  - b.num * (BTC_close - Val(eb))
                  o == <<PairOrder("ETH", "sell", "exit", ok1),
                         PairOrder("BTC", "buy", "exit", ok2)>> IN
              IF BothFilled(ok1, ok2)
              THEN PairTrading(0, None, None, None, prof + profit_trade, o)
              ELSE PairTrading(pos, eb, ee, es, prof + profit_trade, o)
         ELSE IF pos = -1 /\ CompareToMean(sh, current_spread) <= 0
         THEN LET profit_trade == b.num * (BTC_close - Val(eb))
                                  - (ETH_close - Val(ee)) * b.den
                  o == <<PairOrder("ETH", "buy", "exit", ok1),
                         PairOrder("BTC", "sell", "exit", ok2)>> IN
              IF BothFilled(ok1, ok2)
              THEN PairTrading(0, None, None, None, prof + profit_trade, o)
              ELSE PairTrading(pos, eb, ee, es, prof + profit_trade, o)
         ELSE PairHold(pos, eb, ee, es, prof)

\* historical_data.append(...): only its first INITIAL_WINDOW points and
\* whether it holds that many are ever read, so no more are kept
SPR_Record(hd, BTC_close, ETH_close) ==
    IF Len(hd) < SPR_INITIAL_WINDOW THEN Append(hd, <<BTC_close, ETH_close>>) ELSE hd

SPR_BetaEarly(b, hd) ==
    IF b = None /\ Len(hd) >= SPR_INITIAL_WINDOW - 1
    THEN Some(estimate_beta(hd))
    ELSE b

\* beta after lines 157-161
SPR_Beta(b, hd) ==
    IF b = None /\ Len(hd) >= SPR_INITIAL_WINDOW
    THEN Some(estimate_beta(SubSeq(hd, 1, SPR_INITIAL_WINDOW)))
    ELSE b

\* one pass of the while loop of main
SPR_main(f, BTC_close, ETH_close, ok1, ok2) ==
    /\ bot = "spread_bot"
    /\ pc = "fetch"
    /\ Unread(f, BTC_close = 1 /\ ETH_close = 1 /\ ok1 /\ ok2)
    /\ fetch' = f
    /\ sleeps' = 1
    /\ UNCHANGED <<bot, entry_price, rlVars, tfVars, gnnVars>>
    /\ IF f \in FetchFailures
       THEN /\ sent' = <<>>
            /\ UNCHANGED <<history, position, profit, pairVars, pushed>>
       ELSE LET hd == SPR_Record(historical_data, BTC_close, ETH_close)
                b == SPR_Beta(beta, hd)
                cur == PairHold(position, entry_BTC, entry_ETH, entry_spread, profit)
            IN  IF b = None
                THEN PairPass(hd, b, history, cur, MaxProfit) /\ UNCHANGED pushed
                ELSE LET current_spread == SPR_Spread(Val(b), BTC_close, ETH_close)
                         sh == PushPop(history, current_spread, SPR_ROLLING_WINDOW)
                     IN  /\ Recorded(current_spread)
                         /\ IF Len(sh) < SPR_ROLLING_WINDOW
                            THEN PairPass(hd, b, sh, cur, MaxProfit)
                            ELSE PairPass(hd, b, sh,
                                          SPR_Trade(position, entry_BTC, entry_ETH,
                                                    entry_spread, profit, Val(b),
                                                    BTC_close, ETH_close, sh, ok1, ok2),
                                          MaxProfit * Val(b).den)
    /\ Fills
    /\ Observes

---------------------------------------------------------------------------
(* relative_arbitrage.py *)
(* current_ratio = ETH_price / BTC_price is held multiplied by RatioScale,  *)
(* a multiple of every BTC price, and so are entry_ratio and cum_profit.    *)

RECURSIVE Factorial(_)
Factorial(n) == IF n <= 1 THEN 1 ELSE n * Factorial(n - 1)

RatioScale == Factorial(MaxPrice)

\* current_ratio = ETH_price / BTC_price, times RatioScale
ARB_Ratio(BTC_price, ETH_price) == (ETH_price * RatioScale) \div BTC_price

\* the trading logic of main, lines 160-210; rh is ratio_history
ARB_Trade(pos, eb, ee, er, prof, BTC_price, ETH_price, rh, ok1, ok2) ==
    LET current_ratio == ARB_Ratio(BTC_price, ETH_price) IN
    IF pos = 0
    THEN IF AboveUpperBand(rh, current_ratio, ARB_THRESHOLD, 1)
         THEN LET o == <<PairOrder("ETH", "sell", "enter", ok1),
                         PairOrder("BTC", "buy", "enter", ok2)>> IN
              IF BothFilled(ok1, ok2)
              THEN PairTrading(-1, Some(BTC_price), Some(ETH_price),
                               Some(current_ratio), prof, o)
              ELSE PairTrading(pos, eb, ee, er, prof, o)
         ELSE IF BelowLowerBand(rh, current_ratio, ARB_THRESHOLD, 1)
         THEN LET o == <<PairOrder("ETH", "buy", "enter", ok1),
                         PairOrder("BTC", "sell", "enter", ok2)>> IN
              IF BothFilled(ok1, ok2)
              THEN PairTrading(1, Some(BTC_price), Some(ETH_price),
                               Some(current_ratio), prof, o)
              ELSE PairTrading(pos, eb, ee, er, prof, o)
         ELSE PairHold(pos, eb, ee, er, prof)
    ELSE IF pos = 1 /\ CompareToMean(rh, current_ratio) >= 0
         THEN LET profit_trade == (ETH_price - Val(ee)) * RatioScale
                                  - Val(er) * (BTC_price - Val(eb))
                  o == <<PairOrder("ETH", "sell", "exit", ok1),
                         PairOrder("BTC", "buy", "exit", ok2)>> IN
              IF BothFilled(ok1, ok2)
              THEN PairTrading(0, None, None, None, prof + profit_trade, o)
              ELSE PairTrading(pos, eb, ee, er, prof + profit_trade, o)
         ELSE IF pos = -1 /\ CompareToMean(rh, current_ratio) <= 0
         THEN LET profit_trade == Val(er) * (BTC_price - Val(eb))
                                  - (ETH_price - Val(ee)) * RatioScale
                  o == <<PairOrder("ETH", "buy", "exit", ok1),
                         PairOrder("BTC", "sell", "exit", ok2)>> IN
              IF BothFilled(ok1, ok2)
              THEN PairTrading(0, None, None, None, prof + profit_trade, o)
              ELSE PairTrading(pos, eb, ee, er, prof + profit_trade, o)
         ELSE PairHold(pos, eb, ee, er, prof)

\* one pass of the while loop of main
ARB_main(f, BTC_price, ETH_price, ok1, ok2) ==
    /\ bot = "relative_arbitrage"
    /\ pc = "fetch"
    /\ Unread(f, BTC_price = 1 /\ ETH_price = 1 /\ ok1 /\ ok2)
    /\ BTC_price = 0 => ETH_price = 1 /\ ok1 /\ ok2
    /\ fetch' = f
    /\ sleeps' = IF f = "ok" /\ BTC_price = 0 THEN 0 ELSE 1
    /\ UNCHANGED <<bot, entry_price, Q_table, state, action,
                   previous_portfolio_value, steps, last_reward, acted,
                   tfVars, gnnVars>>
    /\ IF f \in FetchFailures
       THEN /\ sent' = <<>>
            /\ UNCHANGED <<history, position, profit, pairVars, pushed, pc>>
       ELSE IF BTC_price = 0
       THEN \* line 133: ETH_price / BTC_price raises ZeroDivisionError
            /\ pc' = "crashed"
            /\ sent' = <<>>
            /\ UNCHANGED <<history, position, profit, pairVars, pushed>>
       ELSE LET current_ratio == ARB_Ratio(BTC_price, ETH_price)
                rh == PushPop(history, current_ratio, ARB_ROLLING_WINDOW)
            IN  /\ pc' = pc
                /\ Recorded(current_ratio)
                /\ IF Len(rh) < ARB_ROLLING_WINDOW
                   THEN PairPass(historical_data, beta, rh,
                                 PairHold(position, entry_BTC, entry_ETH, entry_spread,
                                          profit),
                                 MaxProfit * RatioScale)
                   ELSE PairPass(historical_data, beta, rh,
                                 ARB_Trade(position, entry_BTC, entry_ETH, entry_spread,
                                           profit, BTC_price, ETH_price, rh, ok1, ok2),
                                 MaxProfit * RatioScale)
    /\ Fills
    /\ Observes

---------------------------------------------------------------------------
(* Reinforcement_bot.py *)
(* cash is held relative to its starting value.  A Q-value is held          *)
(* multiplied by QScale: alpha = 1 / 10 and alpha * gamma = 99 / 1000, so   *)
(* after k calls of update_Q every Q-value is a multiple of                 *)
(* 1 / (10 * 1000^(k-1)), and the divisions of update_Q below are exact.    *)

RECURSIVE Power(_, _)
Power(b, e) == IF e = 0 THEN 1 ELSE b * Power(b, e - 1)

QScale == RL_alpha_inv * Power(RL_alpha_inv * 100, RL_MaxSteps - 1)

Actions == {0, 1, 2}

\* a state with a fourth trend label for a price exactly at its average
get_stateFourLabels(h, pos, current_price) ==
    IF Len(h) < RL_MA_WINDOW THEN None
    ELSE LET S == Sum(LastN(h, RL_MA_WINDOW))
             D == RL_MA_WINDOW * current_price - S
         IN  Some(<<pos, IF 100 * D > RL_TREND_THRESHOLD_PCT * S THEN "up"
                         ELSE IF 100 * D < -(RL_TREND_THRESHOLD_PCT * S) THEN "down"
                         ELSE IF D = 0 THEN "flat"
                         ELSE "neutral">>)

\* get_state(current_price), read after the price is pushed: None with
\* fewer than MA_WINDOW prices, else (position, trend);
\* deviation = (current_price - ma) / ma and ma = sum(h[-MA_WINDOW:]) / MA_WINDOW
get_state(h, pos, current_price) ==
    IF Len(h) < RL_MA_WINDOW THEN None
    ELSE LET S == Sum(LastN(h, RL_MA_WINDOW))
             D == RL_MA_WINDOW * current_price - S
         IN  Some(<<pos, IF 100 * D > RL_TREND_THRESHOLD_PCT * S THEN "up"
                         ELSE IF 100 * D < -(RL_TREND_THRESHOLD_PCT * S) THEN "down"
                         ELSE "neutral">>)

\* an initialisation that starts the table again from the one state
initialize_state_afresh(Q, st) == [x \in {st} |-> [a \in Actions |-> 0]]

initialize_state_if_needed(Q, st) ==
    IF st \in DOMAIN Q THEN Q
    ELSE [x \in DOMAIN Q \cup {st} |-> IF x = st THEN [a \in Actions |-> 0] ELSE Q[x]]

\* the last of 0, 1, 2 with the greatest value
GreedyLast(q) ==
    IF q[2] >= q[0] /\ q[2] >= q[1] THEN 2 ELSE IF q[1] >= q[0] THEN 1 ELSE 0

\* max(actions, key=actions.get): the first of 0, 1, 2 with the greatest value
Greedy(q) ==
    IF q[0] >= q[1] /\ q[0] >= q[2] THEN 0 ELSE IF q[1] >= q[2] THEN 1 ELSE 2

\* choose_action on the initialised table: a random action when exploring
choose_action(Q, st, explore, a) == IF explore THEN a ELSE Greedy(Q[st])

MaxQ(q) == Max(<<q[0], q[1], q[2]>>)

\* the update without the discount: Q[s][a] + alpha * (reward + max_next - Q[s][a])
update_QUndiscounted(Q, st, a, reward, next_state) ==
    LET Q1 == initialize_state_if_needed(Q, st)
        Q2 == initialize_state_if_needed(Q1, next_state)
        max_next == MaxQ(Q2[next_state])
        old == Q2[st][a]
    IN  [Q2 EXCEPT ![st][a] =
            old + (reward * QScale) \div RL_alpha_inv
                + max_next \div RL_alpha_inv
                - old \div RL_alpha_inv]

\* update_Q: Q[s][a] + alpha * (reward + gamma * max_next - Q[s][a])
update_Q(Q, st, a, reward, next_state) ==
    LET Q1 == initialize_state_if_needed(Q, st)
        Q2 == initialize_state_if_needed(Q1, next_state)
        max_next == MaxQ(Q2[next_state])
        old == Q2[st][a]
    IN  [Q2 EXCEPT ![st][a] =
            old + (reward * QScale) \div RL_alpha_inv
                + RL_gamma_pct * (max_next \div (RL_alpha_inv * 100))
                - old \div RL_alpha_inv]

\* execute_action, lines 165-213
execute_action(a, pos, entry, cash, price, ok1, ok2) ==
    IF a = 1
    THEN IF pos = 0
         THEN IF ok1
              THEN Trading(1, Some(price), cash, <<Order("buy", "enter", TRUE)>>)
              ELSE Trading(pos, entry, cash, <<Order("buy", "enter", FALSE)>>)
         ELSE IF pos = -1
         THEN IF ok1
              THEN IF ok2
                   THEN Trading(1, Some(price), cash + (Val(entry) - price),
                                <<Order("buy", "exit", TRUE), Order("buy", "enter", TRUE)>>)
                   ELSE Trading(pos, entry, cash + (Val(entry) - price),
                                <<Order("buy", "exit", TRUE), Order("buy", "enter", FALSE)>>)
              ELSE Trading(pos, entry, cash, <<Order("buy", "exit", FALSE)>>)
         ELSE Hold(pos, entry, cash)
    ELSE IF a = 2
    THEN IF pos = 0
         THEN IF ok1
              THEN Trading(-1, Some(price), cash, <<Order("sell", "enter", TRUE)>>)
              ELSE Trading(pos, entry, cash, <<Order("sell", "enter", FALSE)>>)
         ELSE IF pos = 1
         THEN IF ok1
              THEN IF ok2
                   THEN Trading(-1, Some(price), cash + (price - Val(entry)),
                                <<Order("sell", "exit", TRUE), Order("sell", "enter", TRUE)>>)
                   ELSE Trading(pos, entry, cash + (price - Val(entry)),
                                <<Order("sell", "exit", TRUE), Order("sell", "enter", FALSE)>>)
              ELSE Trading(pos, entry, cash, <<Order("sell", "exit", FALSE)>>)
         ELSE Hold(pos, entry, cash)
    ELSE Hold(pos, entry, cash)

get_portfolio_value(pos, entry, cash, current_price) ==
    IF pos = 0 \/ entry = None THEN cash
    ELSE IF pos = 1 THEN cash + (current_price - Val(entry))
    ELSE cash + (Val(entry) - current_price)

\* main from the fetch of line 240 to the sleep of line 271, or to the
\* sleep and continue of a skipped pass
RL_act(f, price, explore, a, ok1, ok2) ==
    /\ bot = "Reinforcement_bot"
    /\ Unread(f, price = 1 /\ ok1 /\ ok2 /\ explore)
    /\ ~explore => a = 0
    /\ pc = "fetch"
    /\ fetch' = f
    /\ sleeps' = 1
    /\ UNCHANGED <<bot, pairVars, tfVars, gnnVars>>
    /\ IF f \in FetchFailures
       THEN /\ sent' = <<>>
            /\ UNCHANGED <<history, position, entry_price, profit, pushed,
                           Q_table, state, action, previous_portfolio_value, pc, steps,
                           last_reward, acted>>
       ELSE LET h == Push(history, price, RL_MA_WINDOW)
                new_state == get_state(h, position, price)
            IN  /\ history' = h
                /\ Recorded(price)
                /\ IF new_state = None
                   THEN /\ sent' = <<>>
                        /\ UNCHANGED <<position, entry_price, profit,
                                       Q_table, state, action,
                                       previous_portfolio_value, pc, steps,
                                       last_reward, acted>>
                   ELSE LET st == IF state = None THEN new_state ELSE state
                            Q == initialize_state_if_needed(Q_table, Val(st))
                            act == choose_action(Q, Val(st), explore, a)
                            t == execute_action(act, position, entry_price, profit,
                                                price, ok1, ok2)
                        IN  /\ steps < RL_MaxSteps
                            /\ steps' = steps + 1
                            /\ acted' = acted + 1
                            /\ last_reward' = last_reward
                            /\ state' = st
                            /\ previous_portfolio_value' =
                                  IF state = None
                                  THEN Some(get_portfolio_value(position, entry_price,
                                                                profit, price))
                                  ELSE previous_portfolio_value
                            /\ Q_table' = Q
                            /\ action' = Some(act)
                            /\ InRange(t.profit)
                            /\ position' = t.position
                            /\ entry_price' = t.entry_price
                            /\ profit' = t.profit
                            /\ sent' = t.sent
                            /\ pc' = "next"
    /\ Fills
    /\ Observes

\* main from the fetch of line 274 to the end of the loop body
RL_learn(f, next_price) ==
    /\ bot = "Reinforcement_bot"
    /\ Unread(f, next_price = 1)
    /\ pc = "next"
    /\ fetch' = f
    /\ sleeps' = 0
    /\ sent' = <<>>
    /\ pc' = "fetch"
    /\ UNCHANGED <<bot, position, entry_price, profit, action, steps,
                   pairVars, tfVars, gnnVars>>
    /\ IF f \in FetchFailures
       THEN UNCHANGED <<history, Q_table, state, previous_portfolio_value, pushed,
                        last_reward, acted>>
       ELSE LET h == Push(history, next_price, RL_MA_WINDOW)
                next_state == get_state(h, position, next_price)
                new_portfolio_value ==
                    get_portfolio_value(position, entry_price, profit, next_price)
                reward == new_portfolio_value - Val(previous_portfolio_value)
            IN  /\ history' = h
                /\ Recorded(next_price)
                /\ IF next_state = None
                   THEN UNCHANGED <<Q_table, state, previous_portfolio_value,
                                    last_reward, acted>>
                   ELSE /\ Q_table' = update_Q(Q_table, Val(state), Val(action),
                                               reward, Val(next_state))
                        /\ state' = next_state
                        /\ previous_portfolio_value' = Some(new_portfolio_value)
                        /\ last_reward' = Some(reward)
                        /\ acted' = 0
    /\ Fills
    /\ Observes

---------------------------------------------------------------------------
(* trend_following_bot.py *)
(* The script keeps no entry price and no profit.  time.time() is the       *)
(* variable now at the start of a pass; an order takes lat seconds, and     *)
(* the sleep at the end of the pass takes EVALUATION_INTERVAL seconds.      *)

TFResult(pos, ltt, orders) ==
    [current_position |-> pos, last_trade_time |-> ltt, sent |-> orders]

\* fast_ma compared with slow_ma: -1 below, 0 equal, 1 above; the slow
\* window is min(len(price_history), SLOW_WINDOW) prices long
TF_Cross(h) ==
    LET fast == LastN(h, TF_FAST_WINDOW)
        slow == LastN(h, TF_SLOW_WINDOW)
        D == Sum(fast) * Len(slow) - Sum(slow) * Len(fast)
    IN  IF D < 0 THEN -1 ELSE IF D > 0 THEN 1 ELSE 0

\* the evaluation with a buy on every fast MA above the slow MA
TF_evaluateBuyAgain(h, pos, ltt, now_ts, trade_ts, ok) ==
    IF Len(h) < TF_FAST_WINDOW THEN TFResult(pos, ltt, <<>>)
    ELSE IF ltt # None /\ now_ts - Val(ltt) < TF_COOLDOWN THEN TFResult(pos, ltt, <<>>)
    ELSE IF TF_Cross(h) > 0
    THEN IF ok THEN TFResult(1, Some(trade_ts), <<Order("buy", "enter", TRUE)>>)
               ELSE TFResult(pos, ltt, <<Order("buy", "enter", FALSE)>>)
    ELSE IF pos = 1 /\ TF_Cross(h) < 0
    THEN IF ok THEN TFResult(0, Some(trade_ts), <<Order("sell", "exit", TRUE)>>)
               ELSE TFResult(pos, ltt, <<Order("sell", "exit", FALSE)>>)
    ELSE TFResult(pos, ltt, <<>>)

\* evaluate_trading_signal; now_ts is the time of the call, trade_ts the
\* time after the order
TF_evaluate(h, pos, ltt, now_ts, trade_ts, ok) ==
    IF Len(h) < TF_FAST_WINDOW THEN TFResult(pos, ltt, <<>>)
    ELSE IF ltt # None /\ now_ts - Val(ltt) < TF_COOLDOWN THEN TFResult(pos, ltt, <<>>)
    ELSE IF pos = 0 /\ TF_Cross(h) > 0
    THEN IF ok THEN TFResult(1, Some(trade_ts), <<Order("buy", "enter", TRUE)>>)
               ELSE TFResult(pos, ltt, <<Order("buy", "enter", FALSE)>>)
    ELSE IF pos = 1 /\ TF_Cross(h) < 0
    THEN IF ok THEN TFResult(0, Some(trade_ts), <<Order("sell", "exit", TRUE)>>)
               ELSE TFResult(pos, ltt, <<Order("sell", "exit", FALSE)>>)
    ELSE TFResult(pos, ltt, <<>>)

\* a pass that stamps last_trade_time at every order, filled or not
TF_mainStampEveryOrder(f, price, ok, lat) ==
    /\ bot = "trend_following_bot"
    /\ pc = "fetch"
    /\ Unread(f, price = 1 /\ ok /\ lat = 0)
    /\ now + lat + TF_EVALUATION_INTERVAL <= TF_MaxTime
    /\ fetch' = f
    /\ sleeps' = 1
    /\ UNCHANGED <<bot, entry_price, profit, pairVars, rlVars, gnnVars>>
    /\ IF f \in FetchFailures
       THEN /\ sent' = <<>>
            /\ now' = now + TF_EVALUATION_INTERVAL
            /\ UNCHANGED <<history, position, last_trade_time, pushed>>
       ELSE LET h == Push(history, price, TF_SLOW_WINDOW)
                t == TF_evaluate(h, position, last_trade_time, now, now + lat, ok)
            IN  /\ history' = h
                /\ Recorded(price)
                /\ position' = t.current_position
                /\ last_trade_time' = IF t.sent = <<>> THEN last_trade_time
                                      ELSE Some(now + lat)
                /\ sent' = t.sent
                /\ now' = (IF t.sent = <<>> THEN now ELSE now + lat)
                          + TF_EVALUATION_INTERVAL
    /\ Fills
    /\ Observes

\* one pass of the while loop of main
TF_main(f, price, ok, lat) ==
    /\ bot = "trend_following_bot"
    /\ pc = "fetch"
    /\ Unread(f, price = 1 /\ ok /\ lat = 0)
    /\ now + lat + TF_EVALUATION_INTERVAL <= TF_MaxTime
    /\ fetch' = f
    /\ sleeps' = 1
    /\ UNCHANGED <<bot, entry_price, profit, pairVars, rlVars, gnnVars>>
    /\ IF f \in FetchFailures
       THEN /\ sent' = <<>>
            /\ now' = now + TF_EVALUATION_INTERVAL
            /\ UNCHANGED <<history, position, last_trade_time, pushed>>
       ELSE LET h == Push(history, price, TF_SLOW_WINDOW)
                t == TF_evaluate(h, position, last_trade_time, now, now + lat, ok)
            IN  /\ history' = h
                /\ Recorded(price)
                /\ position' = t.current_position
                /\ last_trade_time' = t.last_trade_time
                /\ sent' = t.sent
                /\ now' = (IF t.sent = <<>> THEN now ELSE now + lat)
                          + TF_EVALUATION_INTERVAL
    /\ Fills
    /\ Observes

---------------------------------------------------------------------------
(* GNN_1.py *)
(* The script keeps no price history and no cumulative profit.  decision    *)
(* is the arg-max of the outputs of the pickled network, which is not       *)
(* part of the repository: any of 0, 1, 2.                                  *)

\* the trading logic with a sell that forgets to clear entry_price
GNN_TradeStaleEntry(decision, pos, entry, current_close, ok) ==
    IF decision = 1 /\ pos = 0
    THEN IF ok THEN Trading(1, Some(current_close), 0, <<Order("buy", "enter", TRUE)>>)
               ELSE Trading(pos, entry, 0, <<Order("buy", "enter", FALSE)>>)
    ELSE IF decision = 2 /\ pos = 1
    THEN IF ok THEN Trading(0, entry, 0, <<Order("sell", "exit", TRUE)>>)
               ELSE Trading(pos, entry, 0, <<Order("sell", "exit", FALSE)>>)
    ELSE Trading(pos, entry, 0, <<>>)

\* the trading logic of main, lines 171-193; in_position is position = 1
GNN_Trade(decision, pos, entry, current_close, ok) ==
    IF decision = 1
    THEN IF pos = 0
         THEN IF ok THEN Trading(1, Some(current_close), 0, <<Order("buy", "enter", TRUE)>>)
                    ELSE Trading(pos, entry, 0, <<Order("buy", "enter", FALSE)>>)
         ELSE Hold(pos, entry, 0)
    ELSE IF decision = 2
    THEN IF pos = 1
         THEN IF ok THEN Trading(0, None, 0, <<Order("sell", "exit", TRUE)>>)
                    ELSE Trading(pos, entry, 0, <<Order("sell", "exit", FALSE)>>)
         ELSE Hold(pos, entry, 0)
    ELSE Hold(pos, entry, 0)

\* one pass of the while loop of main
GNN_main(f, current_close, decision, ok) ==
    /\ bot = "GNN_1"
    /\ pc = "fetch"
    /\ Unread(f, current_close = 1 /\ ok /\ decision = 0)
    /\ fetch' = f
    /\ sleeps' = IF f = "ok" /\ baseline_close = None /\ current_close = 0 THEN 0 ELSE 1
    /\ UNCHANGED <<bot, history, profit, pairVars, Q_table, state, action,
                   previous_portfolio_value, steps, last_reward, acted,
                   tfVars, pushed>>
    /\ IF f \in FetchFailures
       THEN /\ sent' = <<>>
            /\ UNCHANGED <<position, entry_price, gnnVars, pc>>
       ELSE IF baseline_close = None /\ current_close = 0
       THEN \* lines 156-163: baseline_close = 0, and norm_price =
            \* current_close / baseline_close raises ZeroDivisionError
            /\ ok /\ decision = 0
            /\ pc' = "crashed"
            /\ baseline_close' = Some(current_close)
            /\ previous_close' = Some(current_close)
            /\ sent' = <<>>
            /\ UNCHANGED <<position, entry_price, last_decision>>
       ELSE LET t == GNN_Trade(decision, position, entry_price, current_close, ok) IN
            /\ pc' = pc
            /\ baseline_close' = IF baseline_close = None THEN Some(current_close)
                                 ELSE baseline_close
            /\ previous_close' = Some(current_close)
            /\ last_decision' = Some(decision)
            /\ position' = t.position
            /\ entry_price' = t.entry_price
            /\ sent' = t.sent
    /\ Fills
    /\ Observes

---------------------------------------------------------------------------
Init ==
    /\ bot \in Bots
    /\ history = <<>>
    /\ position = 0
    /\ entry_price = None
    /\ profit = 0
    /\ fetch = "none"
    /\ sent = <<>>
    /\ historical_data = <<>>
    /\ beta = None
    /\ entry_BTC = None
    /\ entry_ETH = None
    /\ entry_spread = None
    /\ Q_table = << >>
    /\ state = None
    /\ action = None
    /\ previous_portfolio_value = None
    /\ pc = "fetch"
    /\ steps = 0
    /\ last_reward = None
    /\ acted = 0
    /\ last_trade_time = None
    /\ now = 0
    /\ baseline_close = None
    /\ previous_close = None
    /\ last_decision = None
    /\ pushed = None
    /\ net_filled = None
    /\ observed = None
    /\ sleeps = 0

\* the same start, with the history variable recording
InitRecording ==
    /\ bot \in Bots
    /\ history = <<>>
    /\ position = 0
    /\ entry_price = None
    /\ profit = 0
    /\ fetch = "none"
    /\ sent = <<>>
    /\ historical_data = <<>>
    /\ beta = None
    /\ entry_BTC = None
    /\ entry_ETH = None
    /\ entry_spread = None
    /\ Q_table = << >>
    /\ state = None
    /\ action = None
    /\ previous_portfolio_value = None
    /\ pc = "fetch"
    /\ steps = 0
    /\ last_reward = None
    /\ acted = 0
    /\ last_trade_time = None
    /\ now = 0
    /\ baseline_close = None
    /\ previous_close = None
    /\ last_decision = None
    /\ pushed = Some(<<>>)
    /\ net_filled = None
    /\ observed = None
    /\ sleeps = 0

\* the same start, with the fills recorded
InitFills ==
    /\ bot \in Bots
    /\ history = <<>>
    /\ position = 0
    /\ entry_price = None
    /\ profit = 0
    /\ fetch = "none"
    /\ sent = <<>>
    /\ historical_data = <<>>
    /\ beta = None
    /\ entry_BTC = None
    /\ entry_ETH = None
    /\ entry_spread = None
    /\ Q_table = << >>
    /\ state = None
    /\ action = None
    /\ previous_portfolio_value = None
    /\ pc = "fetch"
    /\ steps = 0
    /\ last_reward = None
    /\ acted = 0
    /\ last_trade_time = None
    /\ now = 0
    /\ baseline_close = None
    /\ previous_close = None
    /\ last_decision = None
    /\ pushed = None
    /\ net_filled = Some(NoFills)
    /\ observed = None
    /\ sleeps = 0

\* spread_bot, in a run that counts its successful fetches
InitSpreadObserved ==
    /\ bot = "spread_bot"
    /\ history = <<>>
    /\ position = 0
    /\ entry_price = None
    /\ profit = 0
    /\ fetch = "none"
    /\ sent = <<>>
    /\ historical_data = <<>>
    /\ beta = None
    /\ entry_BTC = None
    /\ entry_ETH = None
    /\ entry_spread = None
    /\ Q_table = << >>
    /\ state = None
    /\ action = None
    /\ previous_portfolio_value = None
    /\ pc = "fetch"
    /\ steps = 0
    /\ last_reward = None
    /\ acted = 0
    /\ last_trade_time = None
    /\ now = 0
    /\ baseline_close = None
    /\ previous_close = None
    /\ last_decision = None
    /\ pushed = None
    /\ net_filled = None
    /\ observed = Some(0)
    /\ sleeps = 0

Next ==
    \/ \E f \in FetchOutcomes, price \in Prices, ok1 \in BOOLEAN, ok2 \in BOOLEAN :
          DMA_main(f, price, ok1, ok2)
    \/ \E f \in FetchOutcomes, price \in Prices, ok1 \in BOOLEAN, ok2 \in BOOLEAN :
          MAVG_main(f, price, ok1, ok2)
    \/ \E f \in FetchOutcomes, price \in MOM_Prices, ok \in BOOLEAN :
          MOM_main(f, price, ok)
    \/ \E f \in FetchOutcomes, price \in Prices, ok \in BOOLEAN :
          BB_main(f, price, ok)
    \/ \E f \in FetchOutcomes, price \in Prices, ok \in BOOLEAN :
          MR_main(f, price, ok)
    \/ \E f \in FetchOutcomes, price \in Prices, ok \in BOOLEAN :
          RSI_main(f, price, ok)
    \/ \E f \in FetchOutcomes, price \in Prices, ok \in BOOLEAN :
          BRK_main(f, price, ok)
    \/ \E f \in FetchOutcomes, BTC \in Prices, ETH \in Prices,
          ok1 \in BOOLEAN, ok2 \in BOOLEAN :
          SPR_main(f, BTC, ETH, ok1, ok2)
    \/ \E f \in FetchOutcomes, BTC \in ZeroPrices, ETH \in Prices,
          ok1 \in BOOLEAN, ok2 \in BOOLEAN :
          ARB_main(f, BTC, ETH, ok1, ok2)
    \/ \E f \in FetchOutcomes, price \in Prices, explore \in BOOLEAN, a \in Actions,
          ok1 \in BOOLEAN, ok2 \in BOOLEAN :
          RL_act(f, price, explore, a, ok1, ok2)
    \/ \E f \in FetchOutcomes, price \in Prices :
          RL_learn(f, price)
    \/ \E f \in FetchOutcomes, price \in Prices, ok \in BOOLEAN, lat \in 0..TF_MaxLatency :
          TF_main(f, price, ok, lat)
    \/ \E f \in FetchOutcomes, price \in ZeroPrices, decision \in Actions,
          ok \in BOOLEAN :
          GNN_main(f, price, decision, ok)

Spec == Init /\ [][Next]_vars

SpecRecording == InitRecording /\ [][Next]_vars

\* Every script is a process of its own: the runs of one script, for the
\* claims that are about that script alone
DMA_Next ==
    \E f \in FetchOutcomes, price \in Prices, ok1 \in BOOLEAN, ok2 \in BOOLEAN :
       DMA_main(f, price, ok1, ok2)

InitDualMovingAverage == Init /\ bot = "DualMovingAverage"

SpecDualMovingAverage == InitDualMovingAverage /\ [][DMA_Next]_vars

MOM_Next ==
    \E f \in FetchOutcomes, price \in MOM_Prices, ok \in BOOLEAN :
       MOM_main(f, price, ok)

InitMomentum == Init /\ bot = "momentum_bot"

SpecMomentum == InitMomentum /\ [][MOM_Next]_vars

BB_Next ==
    \E f \in FetchOutcomes, price \in Prices, ok \in BOOLEAN : BB_main(f, price, ok)

InitBollinger == Init /\ bot = "bollinger_bands"

SpecBollinger == InitBollinger /\ [][BB_Next]_vars

MR_Next ==
    \E f \in FetchOutcomes, price \in Prices, ok \in BOOLEAN : MR_main(f, price, ok)

InitMeanReversion == Init /\ bot = "mean_reversion"

SpecMeanReversion == InitMeanReversion /\ [][MR_Next]_vars

BRK_Next ==
    \E f \in FetchOutcomes, price \in Prices, ok \in BOOLEAN : BRK_main(f, price, ok)

InitBreakoutRecording == InitRecording /\ bot = "breakout_bot"

SpecBreakoutRecording == InitBreakoutRecording /\ [][BRK_Next]_vars

RSI_Next ==
    \E f \in FetchOutcomes, price \in Prices, ok \in BOOLEAN : RSI_main(f, price, ok)

InitRSI == Init /\ bot = "rsi_strategy"

SpecRSI == InitRSI /\ [][RSI_Next]_vars

RL_Next ==
    \/ \E f \in FetchOutcomes, price \in Prices, explore \in BOOLEAN, a \in Actions,
          ok1 \in BOOLEAN, ok2 \in BOOLEAN :
          RL_act(f, price, explore, a, ok1, ok2)
    \/ \E f \in FetchOutcomes, price \in Prices :
          RL_learn(f, price)

InitReinforcement == Init /\ bot = "Reinforcement_bot"

SpecReinforcement == InitReinforcement /\ [][RL_Next]_vars

MAVG_Next ==
    \E f \in FetchOutcomes, price \in Prices, ok1 \in BOOLEAN, ok2 \in BOOLEAN :
       MAVG_main(f, price, ok1, ok2)

\* the two scripts that are always in the market once they have entered
Crossover_Next == DMA_Next \/ MAVG_Next

InitCrossover == Init /\ bot \in {"DualMovingAverage", "moving_average"}

SpecCrossover == InitCrossover /\ [][Crossover_Next]_vars

CheckedSingleLeg_Next == MOM_Next \/ DMA_Next \/ RL_Next

InitCheckedSingleLegFills ==
    InitFills /\ bot \in {"momentum_bot", "DualMovingAverage", "Reinforcement_bot"}

SpecCheckedSingleLegFills == InitCheckedSingleLegFills /\ [][CheckedSingleLeg_Next]_vars

InitPairsFills == InitFills /\ bot \in {"spread_bot", "relative_arbitrage"}

TF_Next ==
    \E f \in FetchOutcomes, price \in Prices, ok \in BOOLEAN, lat \in 0..TF_MaxLatency :
       TF_main(f, price, ok, lat)

GNN_Next ==
    \E f \in FetchOutcomes, price \in ZeroPrices, decision \in Actions,
       ok \in BOOLEAN :
       GNN_main(f, price, decision, ok)

LongOnly_Next == TF_Next \/ GNN_Next

InitLongOnly == Init /\ bot \in {"trend_following_bot", "GNN_1"}

SpecLongOnly == InitLongOnly /\ [][LongOnly_Next]_vars

SPR_Next ==
    \E f \in FetchOutcomes, BTC \in Prices, ETH \in Prices,
       ok1 \in BOOLEAN, ok2 \in BOOLEAN :
       SPR_main(f, BTC, ETH, ok1, ok2)

ARB_Next ==
    \E f \in FetchOutcomes, BTC \in ZeroPrices, ETH \in Prices,
       ok1 \in BOOLEAN, ok2 \in BOOLEAN :
       ARB_main(f, BTC, ETH, ok1, ok2)

Pairs_Next == SPR_Next \/ ARB_Next

InitPairs == Init /\ bot \in {"spread_bot", "relative_arbitrage"}

SpecPairs == InitPairs /\ [][Pairs_Next]_vars

SpecPairsFills == InitPairsFills /\ [][Pairs_Next]_vars

SpecSpreadObserved == InitSpreadObserved /\ [][SPR_Next]_vars

\* choose_action without exploring and update_Q with a constant reward and
\* next_state equal to state, applied in turn RL_MaxSteps times to a table
\* that is empty or holds the state with values of -100, 0 or 100
QL_Rewards == -1..1
QL_Values == {-100 * QScale, 0, 100 * QScale}
QL_State == <<0, "neutral">>

InitQLearning ==
    /\ bot = "Reinforcement_bot"
    /\ Q_table \in {<< >>} \cup [{QL_State} -> [Actions -> QL_Values]]
    /\ state = Some(QL_State)
    /\ action = None
    /\ last_reward \in {Some(r) : r \in QL_Rewards}
    /\ steps = 0
    /\ acted = 0
    /\ previous_portfolio_value = None
    /\ pc = "fetch"
    /\ history = <<>>
    /\ position = 0
    /\ entry_price = None
    /\ profit = 0
    /\ fetch = "none"
    /\ sent = <<>>
    /\ historical_data = <<>>
    /\ beta = None
    /\ entry_BTC = None
    /\ entry_ETH = None
    /\ entry_spread = None
    /\ last_trade_time = None
    /\ now = 0
    /\ baseline_close = None
    /\ previous_close = None
    /\ last_decision = None
    /\ pushed = None
    /\ net_filled = None
    /\ observed = None
    /\ sleeps = 0

\* "action = choose_action(state)", line 264, when np.random.rand() >= epsilon
ApplyChooseAction ==
    /\ action = None
    /\ steps < RL_MaxSteps
    /\ Q_table' = initialize_state_if_needed(Q_table, Val(state))
    /\ action' = Some(choose_action(Q_table', Val(state), FALSE, 0))
    /\ UNCHANGED <<bot, history, position, entry_price, profit, fetch, sent,
                   pairVars, state, previous_portfolio_value, pc, steps,
                   last_reward, acted, tfVars, gnnVars, pushed, net_filled, observed, sleeps>>

\* "update_Q(state, action, reward, next_state)", line 292
ApplyUpdateQ ==
    /\ action # None
    /\ Q_table' = update_Q(Q_table, Val(state), Val(action), Val(last_reward),
                           Val(state))
    /\ action' = None
    /\ steps' = steps + 1
    /\ UNCHANGED <<bot, history, position, entry_price, profit, fetch, sent,
                   pairVars, state, previous_portfolio_value, pc,
                   last_reward, acted, tfVars, gnnVars, pushed, net_filled, observed, sleeps>>

QL_Next == ApplyChooseAction \/ ApplyUpdateQ

SpecQLearning == InitQLearning /\ [][QL_Next]_vars

\* estimate_beta applied once to FP_POINTS calibration points with float
\* BTC prices of 1 .. 2^FP_PRECISION - 1 units and ETH prices of 1 .. 3 units
FP_Prices == 1..(2 ^ FP_PRECISION - 1)
FP_ETHPrices == 1..3

InitEstimateBeta ==
    /\ bot = "spread_bot"
    /\ historical_data \in [1..FP_POINTS -> FP_Prices \X FP_ETHPrices]
    /\ beta = None
    /\ history = <<>>
    /\ position = 0
    /\ entry_price = None
    /\ profit = 0
    /\ fetch = "none"
    /\ sent = <<>>
    /\ entry_BTC = None
    /\ entry_ETH = None
    /\ entry_spread = None
    /\ Q_table = << >>
    /\ state = None
    /\ action = None
    /\ previous_portfolio_value = None
    /\ pc = "fetch"
    /\ steps = 0
    /\ last_reward = None
    /\ acted = 0
    /\ last_trade_time = None
    /\ now = 0
    /\ baseline_close = None
    /\ previous_close = None
    /\ last_decision = None
    /\ pushed = None
    /\ net_filled = None
    /\ observed = None
    /\ sleeps = 0

\* "beta = estimate_beta(initial_data)", line 159
ApplyEstimateBeta ==
    /\ beta = None
    /\ beta' = Some(estimate_beta_float(historical_data))
    /\ UNCHANGED <<bot, history, position, entry_price, profit, fetch, sent,
                   historical_data, entry_BTC, entry_ETH, entry_spread,
                   rlVars, tfVars, gnnVars, pushed, net_filled, observed, sleeps>>

SpecEstimateBeta == InitEstimateBeta /\ [][ApplyEstimateBeta]_vars

TypeOK ==
    /\ bot \in Bots
    /\ position \in {-1, 0, 1}
    /\ entry_price \in {None} \cup {Some(p) : p \in ZeroPrices \cup MOM_Prices}
    /\ pc \in {"fetch", "next", "crashed"}
    /\ sleeps \in {0, 1}
    /\ acted \in 0..RL_MaxSteps
    /\ last_decision \in {None} \cup {Some(d) : d \in Actions}


---------------------------------------------------------------------------
(* Properties *)

PairBots == {"spread_bot", "relative_arbitrage"}
SingleLegBots == Bots \ PairBots
FlipBots == {"DualMovingAverage", "Reinforcement_bot", "moving_average"}

\* the orders of a flip whose closing order filled and whose opening order failed
FlipExitOnly(orders) ==
    /\ Len(orders) = 2
    /\ orders[1].leg = "exit" /\ orders[1].ok
    /\ orders[2].leg = "enter" /\ ~orders[2].ok

\* C1: in a flip-capable bot, a pass in which the closing order succeeds and
\* the opening order fails ends Flat: position 0 and entry price None.
C1_FlipEndsFlat ==
    [][(bot \in FlipBots /\ FlipExitOnly(sent'))
         => (position' = 0 /\ entry_price' = None)]_vars

\* C2: in a single-leg bot, a pass that starts Flat and whose entry order
\* fails ends with position 0 and entry price None.
C2_FailedEntryStaysFlat ==
    [][(bot \in SingleLegBots /\ position = 0 /\ Len(sent') = 1
          /\ sent'[1].leg = "enter" /\ ~sent'[1].ok)
         => (position' = 0 /\ entry_price' = None)]_vars

\* C3: in every reachable state of a bot that tracks an entry price,
\* position = 0 exactly when the entry price is None; in the pairs bots the
\* entry fields are all None when position = 0 and all set otherwise.
C3_PositionIffEntry ==
    /\ bot \in SingleLegBots \ {"trend_following_bot"}
         => (position = 0 <=> entry_price = None)
    /\ bot \in PairBots
         => IF position = 0
            THEN entry_BTC = None /\ entry_ETH = None /\ entry_spread = None
            ELSE entry_BTC # None /\ entry_ETH # None /\ entry_spread # None

\* a pairs bot back to Flat by a pass that sent its two closing orders
C3_Witness ==
    /\ bot \in PairBots
    /\ position = 0
    /\ Len(sent) = 2
    /\ sent[1].leg = "exit"
    /\ entry_BTC = None

\* the closing orders of a pass all filled
ExitFilled(orders) ==
    /\ \E i \in DOMAIN orders : orders[i].leg = "exit"
    /\ \A i \in DOMAIN orders : orders[i].leg = "exit" => orders[i].ok

\* C4: the cumulative profit changes in a pass only if the position held at
\* the start of the pass is closed in that pass: the bot no longer holds it
\* after the pass, or at least its closing orders all filled.
C4_ProfitOnlyOnClose ==
    [][(profit' # profit)
         => (position # 0 /\ (position' # position \/ ExitFilled(sent')))]_vars

\* C5: in the pairs bots the position leaves Flat only if both legs of the
\* entry succeed; if a leg fails the position stays 0 and every entry field
\* stays None.
C5_EntryNeedsBothLegs ==
    [][(bot \in PairBots /\ position = 0) =>
         ( /\ (position' # 0) => (Len(sent') = 2 /\ sent'[1].ok /\ sent'[2].ok)
           /\ (\E i \in DOMAIN sent' : ~sent'[i].ok)
                => ( /\ position' = 0
                     /\ entry_BTC' = None
                     /\ entry_ETH' = None
                     /\ entry_spread' = None ) )]_vars

\* a pairs bot still Flat after an entry whose first leg filled and whose
\* second leg failed
C5_Witness ==
    /\ bot \in PairBots
    /\ position = 0
    /\ Len(sent) = 2
    /\ sent[1].leg = "enter" /\ sent[1].ok
    /\ sent[2].leg = "enter" /\ ~sent[2].ok
    /\ entry_ETH = None

\* the symbols the printed lines of a pass report as executed
FilledLegs(lines) ==
    {lines[i].symbol : i \in {j \in DOMAIN lines : lines[j].line = "executed"}}

C7_FailedExitKeepsState ==
    [][(bot \in SingleLegBots \ FlipBots /\ position # 0 /\ sent' # <<>>
          /\ sent'[1].leg = "exit" /\ ~sent'[1].ok)
         => UNCHANGED <<position, entry_price, profit>>]_vars

\* C8: in every bot, a pass whose market-data fetch fails submits no order
\* and leaves the buffers, the position, the entry price(s), the cumulative
\* profit and the Q-table unchanged.
C8_FailedFetchChangesNothing ==
    [][(fetch' \in FetchFailures) =>
         ( /\ sent' = <<>>
           /\ UNCHANGED <<history, historical_data, position, entry_price,
                          entry_BTC, entry_ETH, entry_spread, profit, Q_table>> )]_vars

\* the reinforcement bot after a failed fetch, holding a position, a
\* non-empty buffer and a non-empty Q-table
C8_Witness ==
    /\ bot = "Reinforcement_bot"
    /\ fetch \in FetchFailures
    /\ position # 0
    /\ history # <<>>
    /\ DOMAIN Q_table # {}

\* TRADE_AMOUNT of the bot, in hundredths
TradeAmountPct ==
    CASE bot = "DualMovingAverage" -> DMA_TRADE_AMOUNT_PCT
      [] bot = "momentum_bot" -> MOM_TRADE_AMOUNT_PCT
      [] bot = "Reinforcement_bot" -> RL_TRADE_AMOUNT_PCT

\* C9: a round trip entered at P1 (entry_price, set only by a filled entry
\* order in these bots) and closed by a filled exit order at P2 (the price
\* of the pass) raises the cumulative profit by (P2 - P1) * TRADE_AMOUNT for
\* a Long and by (P1 - P2) * TRADE_AMOUNT for a Short.
C9_RoundTripProfit ==
    [][(bot \in {"DualMovingAverage", "momentum_bot", "Reinforcement_bot"}
          /\ position # 0 /\ sent' # <<>> /\ sent'[1].leg = "exit" /\ sent'[1].ok)
         => (LET P1 == Val(entry_price)
                 P2 == history'[Len(history')]
             IN  100 * (profit' - profit) =
                   (IF position = 1 THEN P2 - P1 ELSE P1 - P2) * TradeAmountPct)]_vars

\* the capacity of the bot's rolling buffer
Capacity ==
    CASE bot = "DualMovingAverage" -> DMA_SLOW_WINDOW
      [] bot = "moving_average" -> MAVG_WINDOW
      [] bot = "momentum_bot" -> MOM_HISTORY_CAP
      [] bot = "bollinger_bands" -> BB_WINDOW
      [] bot = "mean_reversion" -> MR_WINDOW
      [] bot = "rsi_strategy" -> RSI_PERIOD + 1
      [] bot = "breakout_bot" -> BRK_LOOKBACK + 1
      [] bot = "spread_bot" -> SPR_ROLLING_WINDOW
      [] bot = "relative_arbitrage" -> ARB_ROLLING_WINDOW
      [] bot = "Reinforcement_bot" -> RL_MA_WINDOW
      [] bot = "trend_following_bot" -> TF_SLOW_WINDOW
      [] bot = "GNN_1" -> 0

\* C10: after k appends the rolling buffer of capacity N holds min(k, N)
\* values: the last min(k, N) appended values, in arrival order.
C10_BufferIsLastN ==
    pushed # None =>
        LET p == Val(pushed)
            k == Len(p)
            m == IF k < Capacity THEN k ELSE Capacity
        IN  /\ Len(history) = m
            /\ \A i \in 1..m : history[i] = p[k - m + i]

\* a buffer that has dropped its oldest value, which differed from the
\* value now oldest
C10_Witness ==
    /\ pushed # None
    /\ bot # "GNN_1"
    /\ Len(Val(pushed)) = Capacity + 1
    /\ Val(pushed)[1] # history[1]
    /\ history = SubSeq(Val(pushed), 2, Capacity + 1)

\* the observations a bot's buffer must hold before its script evaluates a
\* signal: the length test at the head of its evaluation
Warmup ==
    CASE bot = "DualMovingAverage" -> DMA_SLOW_WINDOW
      [] bot = "moving_average" -> MAVG_WINDOW
      [] bot = "bollinger_bands" -> BB_WINDOW
      [] bot = "mean_reversion" -> MR_WINDOW
      [] bot = "rsi_strategy" -> RSI_PERIOD + 1
      [] bot = "breakout_bot" -> BRK_LOOKBACK + 1
      [] bot = "spread_bot" -> SPR_ROLLING_WINDOW
      [] bot = "relative_arbitrage" -> ARB_ROLLING_WINDOW
      [] bot = "Reinforcement_bot" -> RL_MA_WINDOW
      [] bot = "trend_following_bot" -> TF_FAST_WINDOW

\* the bots whose buffer feeds a windowed indicator with a stated warm-up
WindowBots == Bots \ {"momentum_bot", "GNN_1"}

\* the largest window of the bot's indicators
LargestWindow ==
    IF bot = "trend_following_bot" THEN TF_SLOW_WINDOW ELSE Warmup

\* a pass that submits no order and leaves position, entries and profit alone
NoTrade ==
    /\ sent' = <<>>
    /\ UNCHANGED <<position, entry_price, entry_BTC, entry_ETH, entry_spread, profit>>

\* C11 as stated: no bot submits an order, changes its position or credits
\* profit in a pass whose buffer holds fewer observations than the largest
\* window of its indicators (SLOW_WINDOW for trend_following_bot).
C11_NoTradeBelowLargestWindow ==
    [][(bot \in WindowBots /\ Len(history') < LargestWindow) => NoTrade]_vars

\* C11 as amended: no bot submits an order, changes its position or credits
\* profit in a pass whose buffer holds fewer observations than its warm-up
\* size, which is the largest window of its indicators except in
\* trend_following_bot, where it is FAST_WINDOW.
C11_NoTradeBeforeWarmup ==
    [][(bot \in WindowBots /\ Len(history') < Warmup) => NoTrade]_vars

\* trend_following_bot after a pass that got a price and still holds fewer
\* than FAST_WINDOW prices
C11_Witness ==
    /\ bot = "trend_following_bot"
    /\ fetch = "ok"
    /\ history # <<>>
    /\ Len(history) < TF_FAST_WINDOW
    /\ sent = <<>>

\* C12: the loop of every bot runs forever: whatever the fetch outcomes, the
\* prices (0 included) and the order outcomes, no pass ends in an uncaught
\* error, so the script is never found crashed.
C12_NeverCrashes == pc # "crashed"

\* C13: in every bot two consecutive market-data fetches are separated by
\* exactly one wait of EVALUATION_INTERVAL, also after a failed fetch: a
\* script that has fetched and is about to fetch again has slept once.
C13_OneWaitBetweenFetches ==
    (fetch # "none" /\ pc # "crashed") => sleeps = 1

CrossoverBots == {"DualMovingAverage", "moving_average", "trend_following_bot"}

\* the two values a crossover bot compares on the buffer h are exactly equal:
\* fast MA and slow MA, or the price and the MA in moving_average
CrossEqual(h) ==
    CASE bot = "DualMovingAverage" ->
           /\ Len(h) >= DMA_SLOW_WINDOW
           /\ Sum(LastN(h, DMA_FAST_WINDOW)) * Len(h)
                = Sum(h) * Len(LastN(h, DMA_FAST_WINDOW))
      [] bot = "moving_average" ->
           /\ Len(h) >= MAVG_WINDOW
           /\ h[Len(h)] * MAVG_WINDOW = Sum(LastN(h, MAVG_WINDOW))
      [] bot = "trend_following_bot" ->
           /\ Len(h) >= TF_FAST_WINDOW
           /\ TF_Cross(h) = 0

\* C14: in the crossover bots a pass in which the two compared values are
\* exactly equal is a Hold: no order is submitted and position, entry price
\* and profit are unchanged, whatever the current position.
C14_EqualityIsHold ==
    [][(bot \in CrossoverBots /\ fetch' = "ok" /\ CrossEqual(history'))
         => NoTrade]_vars

\* fast MA compared with slow MA on DualMovingAverage's buffer h: -1 below,
\* 0 equal, 1 above
DMA_Cross(h) ==
    LET D == Sum(LastN(h, DMA_FAST_WINDOW)) * Len(h)
               - Sum(h) * Len(LastN(h, DMA_FAST_WINDOW))
    IN  IF D < 0 THEN -1 ELSE IF D > 0 THEN 1 ELSE 0

\* the pass submitted exactly one order, of the given side, and the bot holds
\* pos with the pass's price as entry price iff the order succeeded
OneEntry(side, pos) ==
    /\ Len(sent') = 1
    /\ sent'[1].side = side
    /\ (position' = pos /\ entry_price' = Some(history'[Len(history')]))
          <=> sent'[1].ok

\* C15: in DualMovingAverage with a full slow window: Flat and fast MA > slow
\* MA gives exactly one buy order, and Long with the current price as entry
\* price iff it succeeds; Flat and fast MA < slow MA gives one sell order and
\* Short likewise; Long with fast MA > slow MA, or Short with fast MA < slow
\* MA, gives no order and an unchanged state.
C15_DMAEntries ==
    [][(bot = "DualMovingAverage" /\ fetch' = "ok"
          /\ Len(history') >= DMA_SLOW_WINDOW)
         => ( /\ (position = 0 /\ DMA_Cross(history') = 1) => OneEntry("buy", 1)
              /\ (position = 0 /\ DMA_Cross(history') = -1) => OneEntry("sell", -1)
              /\ (position = 1 /\ DMA_Cross(history') = 1) => NoTrade
              /\ (position = -1 /\ DMA_Cross(history') = -1) => NoTrade )]_vars

\* DualMovingAverage still Flat after a pass with fast MA below slow MA whose
\* sell order failed
C15_Witness ==
    /\ bot = "DualMovingAverage"
    /\ Len(history) >= DMA_SLOW_WINDOW
    /\ DMA_Cross(history) = -1
    /\ position = 0
    /\ entry_price = None
    /\ Len(sent) = 1
    /\ sent[1].side = "sell" /\ ~sent[1].ok

\* the pass submitted exactly one order, of the given side and leg
Submitted(side, leg) ==
    /\ Len(sent') = 1
    /\ sent'[1].side = side
    /\ sent'[1].leg = leg

\* the price of the pass
PassPrice == history'[Len(history')]

\* C16: in bollinger_bands with a full window: when Flat, Long is entered
\* (one buy order, position 1) iff price > mean + 2*stdev and Short (one sell
\* order, position -1) iff price < mean - 2*stdev; a Long is exited (one sell
\* order, position 0) iff price < mean and a Short (one buy order) iff
\* price > mean; in every other case no order is sent.
C16_BollingerSignals ==
    [][(bot = "bollinger_bands" /\ fetch' = "ok" /\ Len(history') >= BB_WINDOW)
         => (LET c == LastN(history', BB_WINDOW)
                 up == AboveUpperBand(c, PassPrice, 2, 1)
                 down == BelowLowerBand(c, PassPrice, 2, 1)
                 side == CompareToMean(c, PassPrice)
             IN  /\ position = 0 =>
                      /\ (Submitted("buy", "enter") /\ position' = 1) <=> up
                      /\ (Submitted("sell", "enter") /\ position' = -1) <=> down
                      /\ (sent' = <<>> /\ position' = 0) <=> (~up /\ ~down)
                 /\ position = 1 =>
                      /\ (Submitted("sell", "exit") /\ position' = 0) <=> side < 0
                      /\ (sent' = <<>> /\ position' = 1) <=> side >= 0
                 /\ position = -1 =>
                      /\ (Submitted("buy", "exit") /\ position' = 0) <=> side > 0
                      /\ (sent' = <<>> /\ position' = -1) <=> side <= 0)]_vars

\* bollinger_bands still Long after a pass whose price equals the mean of a
\* full window
C16_Witness ==
    /\ bot = "bollinger_bands"
    /\ fetch = "ok"
    /\ Len(history) = BB_WINDOW
    /\ CompareToMean(history, history[Len(history)]) = 0
    /\ position = 1
    /\ sent = <<>>

\* C17: in mean_reversion with a full window: when Flat, Long is entered iff
\* price < mean - 2*stdev and Short iff price > mean + 2*stdev; a Long is
\* exited iff price >= mean and a Short iff price <= mean; in every other
\* case no order is sent.
C17_MeanReversionSignals ==
    [][(bot = "mean_reversion" /\ fetch' = "ok" /\ Len(history') >= MR_WINDOW)
         => (LET c == LastN(history', MR_WINDOW)
                 up == AboveUpperBand(c, PassPrice, 2, 1)
                 down == BelowLowerBand(c, PassPrice, 2, 1)
                 side == CompareToMean(c, PassPrice)
             IN  /\ position = 0 =>
                      /\ (Submitted("buy", "enter") /\ position' = 1) <=> down
                      /\ (Submitted("sell", "enter") /\ position' = -1) <=> up
                      /\ (sent' = <<>> /\ position' = 0) <=> (~up /\ ~down)
                 /\ position = 1 =>
                      /\ (Submitted("sell", "exit") /\ position' = 0) <=> side >= 0
                      /\ (sent' = <<>> /\ position' = 1) <=> side < 0
                 /\ position = -1 =>
                      /\ (Submitted("buy", "exit") /\ position' = 0) <=> side <= 0
                      /\ (sent' = <<>> /\ position' = -1) <=> side > 0)]_vars

\* mean_reversion Flat again after a pass that exited a Long at a price equal
\* to the mean of a full window
C17_Witness ==
    /\ bot = "mean_reversion"
    /\ fetch = "ok"
    /\ Len(history) = MR_WINDOW
    /\ CompareToMean(history, history[Len(history)]) = 0
    /\ position = 0
    /\ Len(sent) = 1
    /\ sent[1].side = "sell" /\ sent[1].leg = "exit"

\* C18: in momentum_bot the momentum evaluated in a pass is the current price
\* minus the price observed exactly MOMENTUM_PERIOD successful observations
\* earlier, and no signal is evaluated (so no order is sent and nothing
\* changes) until an observation that old is in the history.
C18_MomentumLookback ==
    [][(bot = "momentum_bot" /\ fetch' = "ok")
         => (LET h == history' IN
             IF Len(h) <= MOM_MOMENTUM_PERIOD
             THEN NoTrade
             ELSE MOM_Momentum(h) = h[Len(h)] - h[Len(h) - MOM_MOMENTUM_PERIOD])]_vars

\* C19: in momentum_bot, with the momentum the script computes: when Flat a
\* buy is submitted iff momentum > THRESHOLD and a sell iff momentum <
\* -THRESHOLD; when Long an exit sell is submitted iff momentum < 0; when
\* Short an exit buy iff momentum > 0; otherwise no order is submitted; and
\* the position changes only when the submitted order succeeds.
C19_MomentumSignals ==
    [][(bot = "momentum_bot" /\ fetch' = "ok"
          /\ Len(history') >= MOM_MOMENTUM_PERIOD)
         => (LET momentum == MOM_Momentum(history') IN
             /\ position = 0 =>
                  /\ Submitted("buy", "enter") <=> momentum > MOM_THRESHOLD
                  /\ Submitted("sell", "enter") <=> momentum < -MOM_THRESHOLD
                  /\ sent' = <<>> <=> ( /\ momentum <= MOM_THRESHOLD
                                        /\ momentum >= -MOM_THRESHOLD )
             /\ position = 1 =>
                  /\ Submitted("sell", "exit") <=> momentum < 0
                  /\ sent' = <<>> <=> momentum >= 0
             /\ position = -1 =>
                  /\ Submitted("buy", "exit") <=> momentum > 0
                  /\ sent' = <<>> <=> momentum <= 0
             /\ position' # position => (sent' # <<>> /\ sent'[1].ok)
             /\ (sent' # <<>> /\ sent'[1].ok) => position' # position)]_vars

\* momentum_bot still Flat after a pass whose momentum was exactly THRESHOLD
C19_Witness ==
    /\ bot = "momentum_bot"
    /\ fetch = "ok"
    /\ Len(history) >= MOM_MOMENTUM_PERIOD
    /\ MOM_Momentum(history) = MOM_THRESHOLD
    /\ position = 0
    /\ sent = <<>>

\* C20: in breakout_bot, with p the observations so far and k their number
\* (k > LOOKBACK): the breakout levels are the maximum and the minimum of
\* p[k-LOOKBACK .. k-1], exactly the LOOKBACK observations before the current
\* one, and the exit average is over p[k-LOOKBACK+1 .. k], the LOOKBACK most
\* recent ones; when Flat, Long is entered iff price > that maximum and Short
\* iff price < that minimum; a Long is exited iff price < that average and a
\* Short iff price > it.
C20_BreakoutLevels ==
    [][(bot = "breakout_bot" /\ fetch' = "ok" /\ pushed' # None
          /\ Len(Val(pushed')) > BRK_LOOKBACK)
         => (LET p == Val(pushed')
                 k == Len(p)
                 price == p[k]
                 highest == Max(SubSeq(p, k - BRK_LOOKBACK, k - 1))
                 lowest == Min(SubSeq(p, k - BRK_LOOKBACK, k - 1))
                 total == Sum(SubSeq(p, k - BRK_LOOKBACK + 1, k))
             IN  /\ position = 0 =>
                      /\ (Submitted("buy", "enter") /\ position' = 1)
                            <=> price > highest
                      /\ (Submitted("sell", "enter") /\ position' = -1)
                            <=> price < lowest
                      /\ (sent' = <<>> /\ position' = 0)
                            <=> (price <= highest /\ price >= lowest)
                 /\ position = 1 =>
                      /\ (Submitted("sell", "exit") /\ position' = 0)
                            <=> price * BRK_LOOKBACK < total
                      /\ (sent' = <<>> /\ position' = 1)
                            <=> price * BRK_LOOKBACK >= total
                 /\ position = -1 =>
                      /\ (Submitted("buy", "exit") /\ position' = 0)
                            <=> price * BRK_LOOKBACK > total
                      /\ (sent' = <<>> /\ position' = -1)
                            <=> price * BRK_LOOKBACK <= total)]_vars

\* breakout_bot Flat again after exiting a Long in a pass whose buffer had
\* already dropped its oldest observation
C20_Witness ==
    /\ bot = "breakout_bot"
    /\ pushed # None
    /\ Len(Val(pushed)) > BRK_LOOKBACK + 1
    /\ position = 0
    /\ Len(sent) = 1
    /\ sent[1].side = "sell" /\ sent[1].leg = "exit"

\* C21: in rsi_strategy with at least RSI_PERIOD+1 observations, g and l
\* being the sums of the gains and of the losses over the period, so that
\* RSI = 100*g/(g+l): when Flat, Long is entered iff RSI < 30 and Short iff
\* RSI > 70; a Long is exited iff RSI > 50 and a Short iff RSI < 50; for
\* every other RSI value no order is sent and the state is unchanged.
C21_RSISignals ==
    [][(bot = "rsi_strategy" /\ fetch' = "ok" /\ Len(history') >= RSI_PERIOD + 1)
         => (LET w == LastN(history', RSI_PERIOD + 1)
                 g == RSI_Gain(w)
                 l == RSI_Loss(w)
                 below(k) == g + l > 0 /\ 100 * g < k * (g + l)
                 above(k) == g + l > 0 /\ 100 * g > k * (g + l)
             IN  /\ position = 0 =>
                      /\ (Submitted("buy", "enter") /\ position' = 1) <=> below(30)
                      /\ (Submitted("sell", "enter") /\ position' = -1) <=> above(70)
                      /\ NoTrade <=> (~below(30) /\ ~above(70))
                 /\ position = 1 =>
                      /\ (Submitted("sell", "exit") /\ position' = 0) <=> above(50)
                      /\ NoTrade <=> ~above(50)
                 /\ position = -1 =>
                      /\ (Submitted("buy", "exit") /\ position' = 0) <=> below(50)
                      /\ NoTrade <=> ~below(50))]_vars

\* rsi_strategy still Long after a pass whose RSI was exactly 50
C21_Witness ==
    /\ bot = "rsi_strategy"
    /\ fetch = "ok"
    /\ Len(history) = RSI_PERIOD + 1
    /\ RSI_Gain(history) = RSI_Loss(history)
    /\ RSI_Gain(history) > 0
    /\ position = 1
    /\ sent = <<>>

\* C22: in spread_bot, beta is None until INITIAL_WINDOW observations are
\* recorded, is then estimated from the first INITIAL_WINDOW observations,
\* and never changes afterwards (also when it is 0); every spread pushed into
\* spread_history is computed from the prices of the pass with that beta.
C22_BetaFixedOnce ==
    [][(bot = "spread_bot")
         => (/\ beta' = None <=> Len(historical_data') < SPR_INITIAL_WINDOW
             /\ beta # None => beta' = beta
             /\ (beta = None /\ beta' # None)
                  => beta' = Some(estimate_beta(
                                 SubSeq(historical_data', 1, SPR_INITIAL_WINDOW)))
             /\ (fetch' = "ok" /\ beta' = None) => history' = history
             /\ (fetch' = "ok" /\ beta' # None)
                  => \E BTC_close \in Prices, ETH_close \in Prices :
                        /\ historical_data' # historical_data
                             => historical_data'[Len(historical_data')]
                                   = <<BTC_close, ETH_close>>
                        /\ (position' # 0 /\ position = 0)
                             => /\ entry_BTC' = Some(BTC_close)
                                /\ entry_ETH' = Some(ETH_close)
                        /\ history' = PushPop(history,
                                          SPR_Spread(Val(beta'), BTC_close, ETH_close),
                                          SPR_ROLLING_WINDOW))]_vars

\* a pass after beta was estimated as 0 pushes a spread computed with beta 0
C22_Witness ==
    /\ bot = "spread_bot"
    /\ fetch = "ok"
    /\ beta # None
    /\ Val(beta).num = 0
    /\ Len(history) >= 2
    /\ history[1] # history[2]

\* C23 (the case of equal BTC prices): estimate_beta returns 0 when all BTC
\* prices of the calibration points are equal.
C23_BetaZeroOnEqualBTC ==
    (beta # None /\ historical_data # <<>>
       /\ \A i \in DOMAIN historical_data :
             historical_data[i][1] = historical_data[1][1])
      => Val(beta).num = 0

\* C24: in the pairs bots, a pass that submits an entry or an exit submits
\* both the ETH leg and the BTC leg, on opposite sides, whatever the outcome
\* of the first; the position changes only when both legs succeeded.
C24_BothLegsSubmitted ==
    [][(bot \in PairBots /\ sent' # <<>>)
         => (/\ Len(sent') = 2
             /\ sent'[1].symbol = "ETH"
             /\ sent'[2].symbol = "BTC"
             /\ sent'[1].side # sent'[2].side
             /\ sent'[1].leg = sent'[2].leg
             /\ sent'[1].leg = (IF position = 0 THEN "enter" ELSE "exit")
             /\ position' # position <=> (sent'[1].ok /\ sent'[2].ok)
             /\ ~(sent'[1].ok /\ sent'[2].ok)
                  => UNCHANGED <<position, entry_BTC, entry_ETH, entry_spread>>)]_vars

\* the first leg failed, the second was still submitted and succeeded
C24_Witness ==
    /\ bot \in PairBots
    /\ Len(sent) = 2
    /\ ~sent[1].ok
    /\ sent[2].ok
    /\ sent[2].symbol = "BTC"

\* C25: whenever rsi_strategy evaluates its signal (a pass that got a price
\* with RSI_PERIOD + 1 candles), the RSI compared with the thresholds is a
\* number between 0 and 100, and it is 100 when the average loss is 0, also
\* when the average gain is 0 too.
C25_RSIDefined ==
    (bot = "rsi_strategy" /\ fetch = "ok" /\ Len(history) >= RSI_PERIOD + 1)
      => LET r == compute_RSI(history, RSI_PERIOD) IN
         /\ ~r.nan
         /\ 0 <= r.num /\ r.num <= 100 * r.den
         /\ RSI_Loss(LastN(history, RSI_PERIOD + 1)) = 0 => r.num = 100 * r.den

\* C26: when not exploring, choose_action returns an action whose stored
\* Q-value is maximal for the state, the first of 0, 1, 2 among equal
\* maxima; a state initialised by the call has all values 0 and gives Hold.
C26_GreedyFirstMaximum ==
    [][(bot = "Reinforcement_bot" /\ action = None /\ action' # None)
         => (LET q == Q_table'[Val(state)]
                 a == Val(action')
             IN  /\ \A b \in Actions : q[b] <= q[a]
                 /\ \A b \in Actions : b < a => q[b] < q[a]
                 /\ Val(state) \notin DOMAIN Q_table
                      => /\ q = [b \in Actions |-> 0]
                         /\ a = 0)]_vars

\* Buy and Sell share the greatest value and Buy, enumerated first, is chosen
C26_Witness ==
    /\ bot = "Reinforcement_bot"
    /\ steps = 0
    /\ action = Some(1)
    /\ Q_table[Val(state)][1] = Q_table[Val(state)][2]
    /\ Q_table[Val(state)][0] < Q_table[Val(state)][1]

\* R / (1 - gamma), times QScale
QL_FixedPoint(R) == (100 * R * QScale) \div (100 - RL_gamma_pct)

\* C27: update_Q replaces Q[state][action] by
\* Q + alpha * (reward + gamma * max Q[next_state] - Q) and leaves the other
\* values alone; with next_state = state and the updated action maximal in
\* the state, the new value lies between the old one and R / (1 - gamma),
\* and differs from the old one unless that is R / (1 - gamma) already.
C27_UpdateTowardFixedPoint ==
    [][(bot = "Reinforcement_bot" /\ action # None /\ action' = None
          /\ Q_table[Val(state)][Val(action)] = MaxQ(Q_table[Val(state)]))
         => (LET st == Val(state)
                 a == Val(action)
                 R == Val(last_reward)
                 old == Q_table[st][a]
                 new == Q_table'[st][a]
                 target == QL_FixedPoint(R)
             IN  /\ RL_alpha_inv * (new - old)
                       = R * QScale + RL_gamma_pct * (MaxQ(Q_table[st]) \div 100) - old
                 /\ \A b \in Actions \ {a} : Q_table'[st][b] = Q_table[st][b]
                 /\ DOMAIN Q_table' = DOMAIN Q_table
                 /\ old <= target => (old <= new /\ new <= target)
                 /\ old >= target => (target <= new /\ new <= old)
                 /\ old # target => new # old)]_vars

\* after RL_MaxSteps updates with reward 1 a value that started at 0 has
\* grown past alpha * R and is still far below R / (1 - gamma) = 100
C27_Witness ==
    /\ bot = "Reinforcement_bot"
    /\ steps = RL_MaxSteps
    /\ action = None
    /\ last_reward = Some(1)
    /\ state = Some(QL_State)
    /\ QL_State \in DOMAIN Q_table
    /\ Q_table[QL_State][0] > QScale \div RL_alpha_inv
    /\ Q_table[QL_State][0] < QScale
    /\ Q_table[QL_State][1] = 0

\* the price of the last fetch of Reinforcement_bot
RL_Price == history'[Len(history')]

\* C28: in Reinforcement_bot, every Q-update uses as reward the portfolio
\* value at the tick where next_state is observed minus the portfolio value
\* at the tick where state was observed (state and
\* previous_portfolio_value are always taken at the same tick), and exactly
\* one action was executed between the two ticks.
C28_RewardBetweenTicks ==
    [][(bot = "Reinforcement_bot")
         => (/\ (state' # state \/ previous_portfolio_value' # previous_portfolio_value)
                  => /\ state' = get_state(history', position, RL_Price)
                     /\ previous_portfolio_value'
                           = Some(get_portfolio_value(position, entry_price, profit,
                                                      RL_Price))
             /\ (pc = "next" /\ fetch' = "ok")
                  => /\ last_reward'
                           = Some(get_portfolio_value(position, entry_price, profit,
                                                      RL_Price)
                                    - Val(previous_portfolio_value))
                     /\ Q_table' = update_Q(Q_table, Val(state), Val(action),
                                            Val(last_reward'), Val(state'))
                     /\ acted = 1)]_vars

LongOnlyBots == {"GNN_1", "trend_following_bot"}

\* C29: in GNN_1 and trend_following_bot a pass submits at most one order, a
\* buy only when no position is open and a sell only when one is; the
\* position is Flat or Long, becomes Long exactly by a successful buy and
\* Flat exactly by a successful sell, and starts Flat: the successful
\* orders of a run alternate buy, sell, buy, ..., starting with a buy.
C29_LongOnlyAlternate ==
    [][(bot \in LongOnlyBots)
         => (/\ position \in {0, 1} /\ position' \in {0, 1}
             /\ fetch = "none" => position = 0
             /\ Len(sent') <= 1
             /\ \A i \in DOMAIN sent' :
                   /\ sent'[i].side = "buy" => position = 0
                   /\ sent'[i].side = "sell" => position = 1
                   /\ sent'[i].side \in {"buy", "sell"}
                   /\ sent'[i].ok <=> position' # position
             /\ position' # position => (sent' # <<>> /\ sent'[1].ok))]_vars

\* a successful sell that follows a successful buy
C29_Witness ==
    /\ bot \in LongOnlyBots
    /\ sent = <<Order("sell", "exit", TRUE)>>
    /\ position = 0

\* C30: a pass whose decision is Hold (action 0 in Reinforcement_bot,
\* decision 0 in GNN_1, a momentum that meets no entry or exit condition in
\* momentum_bot, and in every bot a pass that ends without an order)
\* submits no order and leaves the position, the entry prices and the
\* realized profit or cash unchanged.
C30_HoldChangesNothing ==
    [][(\/ bot = "Reinforcement_bot" /\ steps' = steps + 1 /\ action' = Some(0)
        \/ bot = "GNN_1" /\ fetch' = "ok" /\ pc' # "crashed" /\ last_decision' = Some(0)
        \/ /\ bot = "momentum_bot" /\ fetch' = "ok"
           /\ Len(history') >= MOM_MOMENTUM_PERIOD
           /\ LET momentum == MOM_Momentum(history') IN
              \/ position = 0 /\ momentum <= MOM_THRESHOLD /\ momentum >= -MOM_THRESHOLD
              \/ position = 1 /\ momentum >= 0
              \/ position = -1 /\ momentum <= 0
        \/ fetch' = "ok" /\ sent' = <<>> /\ pc' # "crashed")
         => NoTrade]_vars

\* Reinforcement_bot chose Hold while Long and is still Long with its entry price
C30_Witness ==
    /\ bot = "Reinforcement_bot"
    /\ pc = "next"
    /\ action = Some(0)
    /\ position = 1
    /\ entry_price # None
    /\ sent = <<>>

\* the Q-update of Reinforcement_bot runs in this step
RL_Updates == bot = "Reinforcement_bot" /\ pc = "next" /\ fetch' = "ok"

\* C31: in Reinforcement_bot, no step removes a Q_table entry or changes a
\* stored value, except that a step with a Q-update may change the one cell
\* (state, action) of that update; an entry that a step creates holds 0 for
\* every action outside that cell.
C31_QTableInPlace ==
    [][(bot = "Reinforcement_bot")
         => (/\ DOMAIN Q_table \subseteq DOMAIN Q_table'
             /\ \A st \in DOMAIN Q_table' : \A a \in Actions :
                   (~(RL_Updates /\ st = Val(state) /\ a = Val(action)))
                     => Q_table'[st][a] = (IF st \in DOMAIN Q_table
                                           THEN Q_table[st][a] ELSE 0))]_vars

\* after the second Q-update the table holds two entries, one of them with
\* the value the first update wrote
C31_Witness ==
    /\ bot = "Reinforcement_bot"
    /\ steps = 2
    /\ acted = 0
    /\ Cardinality(DOMAIN Q_table) >= 2
    /\ \E st \in DOMAIN Q_table : \E a \in Actions :
          st # Val(state) /\ Q_table[st][a] # 0

\* C32: in trend_following_bot, an order is submitted (at the time now of
\* the evaluation) only when no trade was made yet or the last successful
\* trade is at least COOLDOWN old; a successful order stamps
\* last_trade_time with a time not before its submission, and a failed
\* order or a pass without an order leaves it alone.
C32_CooldownBetweenTrades ==
    [][(bot = "trend_following_bot")
         => (/\ sent' # <<>>
                  => /\ last_trade_time # None
                          => now >= Val(last_trade_time) + TF_COOLDOWN
                     /\ IF sent'[1].ok
                        THEN \E lat \in 0..TF_MaxLatency :
                                last_trade_time' = Some(now + lat)
                        ELSE last_trade_time' = last_trade_time
             /\ sent' = <<>> => last_trade_time' = last_trade_time)]_vars

\* a failed order submitted after an earlier successful trade
C32_Witness ==
    /\ bot = "trend_following_bot"
    /\ last_trade_time # None
    /\ Len(sent) = 1
    /\ ~sent[1].ok
    /\ now > Val(last_trade_time) + TF_COOLDOWN

CheckedSingleLegBots == {"momentum_bot", "DualMovingAverage", "Reinforcement_bot"}

\* C33: in momentum_bot, DualMovingAverage and Reinforcement_bot the net
\* quantity filled at the exchange, successful buys minus successful sells
\* in units of TRADE_AMOUNT, equals the position in every reachable state.
C33_NetFilledIsPosition ==
    (bot \in CheckedSingleLegBots /\ net_filled # None)
      => Val(net_filled)["BTC"] = position

\* C34: in spread_bot and relative_arbitrage the net filled ETH quantity
\* equals the position and the net filled BTC quantity equals minus the
\* position (in units of TRADE_AMOUNT) in every reachable state.
C34_PairsHedged ==
    (bot \in PairBots /\ net_filled # None)
      => /\ Val(net_filled)["ETH"] = position
         /\ Val(net_filled)["BTC"] = -position

\* execute_action runs in this step of Reinforcement_bot, at the price
\* pushed last on price_history
RL_Executes == bot = "Reinforcement_bot" /\ steps' = steps + 1

\* C35: in Reinforcement_bot, the state from which the action of a tick is
\* chosen is get_state of that tick: the current position with the trend
\* label of the price at which the action is executed.
C35_ChoiceFromCurrentState ==
    [][RL_Executes
         => state' = get_state(history', position, history'[Len(history')])]_vars

\* C36: in Reinforcement_bot, the portfolio value at the execution price is
\* the same before and after execute_action, for every action, position and
\* combination of order outcomes.
C36_ExecuteKeepsPortfolioValue ==
    [][RL_Executes
         => get_portfolio_value(position', entry_price', profit', history'[Len(history')])
              = get_portfolio_value(position, entry_price, profit, history'[Len(history')])]_vars

\* a step of spread_bot that closes the open position
SPR_Closes == bot = "spread_bot" /\ position # 0 /\ position' = 0

\* C37: in spread_bot, the profit credited when a long spread position is
\* closed is the spread of the exit tick minus entry_spread, and the profit
\* credited when a short spread position is closed is entry_spread minus
\* the spread of the exit tick.
C37_ProfitIsSpreadChange ==
    [][SPR_Closes
         => profit' - profit =
              position * (history'[Len(history')] - Val(entry_spread))]_vars

\* a closed spread trade with a hedge ratio other than 0 that credited a
\* profit other than 0
C37_Witness ==
    /\ bot = "spread_bot"
    /\ position = 0
    /\ Len(sent) = 2
    /\ sent[1].leg = "exit" /\ sent[1].ok /\ sent[2].ok
    /\ Val(beta).num # 0
    /\ profit # 0

\* C38: in DualMovingAverage and moving_average, a position that has left
\* Flat never returns to Flat: from Long or Short every step leads to Long
\* or Short, whatever the order outcomes.
C38_NeverFlatAgain ==
    [][(bot \in {"DualMovingAverage", "moving_average"} /\ position # 0)
         => position' \in {-1, 1}]_vars

\* DualMovingAverage after a flip whose closing order was filled and whose
\* opening order failed
C38_Witness ==
    /\ bot = "DualMovingAverage"
    /\ Len(sent) = 2
    /\ sent[1].ok /\ ~sent[2].ok
    /\ position # 0

\* the first observation at which spread_bot has beta and a full
\* spread_history
SPR_FirstEvaluation == SPR_INITIAL_WINDOW + SPR_ROLLING_WINDOW - 1

\* the step is a pass of spread_bot that ran the trading logic on the
\* prices it fetched
SPR_Evaluates ==
    \E BTC_close \in Prices, ETH_close \in Prices, ok1 \in BOOLEAN, ok2 \in BOOLEAN :
       LET t == SPR_Trade(position, entry_BTC, entry_ETH, entry_spread, profit,
                          Val(beta'), BTC_close, ETH_close, history', ok1, ok2)
       IN  /\ Len(history') = SPR_ROLLING_WINDOW
           /\ history'[Len(history')] = SPR_Spread(Val(beta'), BTC_close, ETH_close)
           /\ position' = t.position
           /\ entry_BTC' = t.entry_BTC
           /\ entry_ETH' = t.entry_ETH
           /\ entry_spread' = t.entry_spread
           /\ profit' = t.profit
           /\ sent' = t.sent

\* C39: spread_bot submits no order before its (INITIAL_WINDOW +
\* ROLLING_WINDOW - 1)-th successful observation, and from that observation
\* on every pass whose fetch succeeds evaluates the entry/exit signal.
C39_EvaluatesFromFirstFullWindow ==
    [][(bot = "spread_bot" /\ observed # None)
         => /\ sent' # <<>> => Val(observed') >= SPR_FirstEvaluation
            /\ (fetch' = "ok" /\ Val(observed') >= SPR_FirstEvaluation)
                 => SPR_Evaluates]_vars

\* orders submitted at the very observation that fills both windows
C39_Witness ==
    /\ bot = "spread_bot"
    /\ observed = Some(SPR_FirstEvaluation)
    /\ fetch = "ok"
    /\ sent # <<>>

\* the states get_state can return
RL_States == {-1, 0, 1} \X {"up", "neutral", "down"}

\* C40: in Reinforcement_bot, every Q_table key is a pair of a position in
\* {-1, 0, 1} and a trend in {up, neutral, down}, every entry maps exactly
\* the actions 0, 1, 2, and the table holds at most 9 states.
C40_QTableShape ==
    bot = "Reinforcement_bot"
      => /\ DOMAIN Q_table \subseteq RL_States
         /\ \A st \in DOMAIN Q_table : DOMAIN Q_table[st] = Actions
         /\ Cardinality(DOMAIN Q_table) <= 9

\* a table with an entry for a state in the market and off the average,
\* next to the entry of the first state
C40_Witness ==
    /\ bot = "Reinforcement_bot"
    /\ Cardinality(DOMAIN Q_table) >= 2
    /\ \E st \in DOMAIN Q_table : st[1] # 0 /\ st[2] # "neutral"

====
